---- MODULE Spec2Model ----
(***************************************************************************)
(* A model of the adobe-eds-ue-test repository: the skill loader           *)
(* (load-custom-skills.sh: option parsing, early termination, the 3-way   *)
(* file merge of skill directories) and the block decorators (three       *)
(* versions of the alert block, carousel, download, downloads, icon-tile) *)
(* with the callbacks they register.                                      *)
(***************************************************************************)
EXTENDS Integers, Sequences, FiniteSets, TLC

VARIABLES
  \* ---- load-custom-skills.sh
  sh,          \* the shell of main: [args, opts, pc, status, why]
  installed,   \* the commands command -v finds
  cloneOK,     \* whether gh repo clone succeeds
  srcDir,      \* the skill directory of the cloned repository
  baseOf,      \* per file, the base version merge_text_file gets from git
  destRoot,    \* whether the destination skills directory exists
  destDir,     \* the destination skill directory
  discover,    \* .agents/discover-skills: "absent" | "old" | "generated"
  agentsMd,    \* AGENTS.md: "absent" | "local" | "copied" | "merged"
  fsBefore,    \* the files when the script started
  \* ---- a page with one block and the decorator of its kind
  kind,        \* which decorator the page runs
  block,       \* the block's markup as delivered: [classes, rows]
  dom,         \* the block after decorate and the events since
  pending,     \* the deferred callbacks waiting: timers and promises
  storage,     \* localStorage: the entries (with the texts that wrote them)
  storageOK,   \* whether localStorage can be used (it throws when not)
  lastEv,      \* the last thing that ran: "load", a user event, a callback
  reloadOfClosed \* this load shows again the markup whose alert was just closed

shellVars == <<sh, installed, cloneOK, srcDir, baseOf, destRoot, destDir,
               discover, agentsMd, fsBefore>>

pageVars == <<kind, block, dom, pending, storage, storageOK, lastEv, reloadOfClosed>>

vars == <<sh, installed, cloneOK, srcDir, baseOf, destRoot, destDir,
          discover, agentsMd, fsBefore,
          kind, block, dom, pending, storage, storageOK, lastEv, reloadOfClosed>>

(***************************************************************************)
(* Bounds.                                                                 *)
(***************************************************************************)
\* Files are made of the lines 1..NLines, each at most once and in
\* increasing order (so that a diff of two files is unambiguous).
NLines == 3

\* The command line holds at most MaxArgs words.
MaxArgs == 2

(***************************************************************************)
(* Generic helpers.                                                        *)
(***************************************************************************)
Range(s) == {s[i] : i \in DOMAIN s}

Min(a, b) == IF a < b THEN a ELSE b

\* The lines s[i+1 .. i+n] (0-based offset i, as the C and shell code count).
Slice(s, i, n) == SubSeq(s, i + 1, i + n)

\* All strictly increasing sequences over 1..n.
RECURSIVE SortedSeqs(_)
SortedSeqs(n) ==
  IF n = 0 THEN {<<>>}
  ELSE SortedSeqs(n - 1) \cup {Append(s, n) : s \in SortedSeqs(n - 1)}

(***************************************************************************)
(* Line texts.  A file is a sequence of line ids; LineText gives the       *)
(* characters of a line, which the conflict fallback of                    *)
(* three_way_merge_file looks at.                                          *)
(***************************************************************************)
LineTexts ==
  << <<"a", "b">>,                       \* shorter than 3 characters
     <<"a", "b", "c">>,
     <<"a", "b", "c", "d">>,             \* contains line 2 as a substring
     <<"x", " ", " ", "y">>,             \* a run of white space
     <<"x", " ", "y">>,
     <<"z", "z", "z">>,
     <<"#", "#", " ", "A">>,             \* the headings of AGENTS.md
     <<"#", "#", " ", "B">>,
     <<"#", "#", " ", "L">>,
     <<"<", "!", "-", "-", " ", "x", " ", "-", "-", ">">>,
     <<>> >>                             \* the empty line

LineText(id) == LineTexts[id]

\* The vertical tab, for which TLA+ has no escape.
VT == "\\v"

\* [[:space:]]: space, tab, newline, vertical tab, form feed, carriage return
IsSpace(c) == c \in {" ", "\t", "\n", VT, "\f", "\r"}

\* sed 's/[[:space:]]\+/ /g'
RECURSIVE Squeeze(_)
Squeeze(t) ==
  IF t = <<>> THEN <<>>
  ELSE IF IsSpace(t[1])
       THEN IF Len(t) > 1 /\ IsSpace(t[2]) THEN Squeeze(Tail(t))
            ELSE <<" ">> \o Squeeze(Tail(t))
       ELSE <<t[1]>> \o Squeeze(Tail(t))

PatternCut == 50
MinLineLen == 3

\* cut -c1-50
Cut(t) == SubSeq(t, 1, Min(PatternCut, Len(t)))

IsSubstring(p, t) ==
  \E k \in 0..(Len(t) - Len(p)) : SubSeq(t, k + 1, k + Len(p)) = p

\* grep -qF "$pattern" "$current"
GrepF(p, file) == \E i \in DOMAIN file : IsSubstring(p, LineText(file[i]))

(***************************************************************************)
(* git merge-file -p current base incoming (xdiff's xdl_merge at its       *)
(* default level), for files whose lines are distinct and increasing.      *)
(***************************************************************************)
\* The first position k >= i of a whose line is also in b (Len(a) if none).
RECURSIVE NextKept(_, _, _)
NextKept(a, b, i) ==
  IF i >= Len(a) \/ a[i + 1] \in Range(b) THEN i ELSE NextKept(a, b, i + 1)

\* The change script base -> x: one change per maximal run of deleted and
\* inserted lines between two lines the files share.
RECURSIVE ChangeScript(_, _, _, _)
ChangeScript(base, x, i, j) ==
  IF i >= Len(base) /\ j >= Len(x) THEN <<>>
  ELSE IF i < Len(base) /\ j < Len(x) /\ base[i + 1] = x[j + 1]
       THEN ChangeScript(base, x, i + 1, j + 1)
       ELSE LET ie == NextKept(base, x, i)
                je == NextKept(x, base, j)
            IN  <<[i1 |-> i, chg1 |-> ie - i, i2 |-> j, chg2 |-> je - j]>>
                \o ChangeScript(base, x, ie, je)

\* xdl_append_merge: a change that touches the previous one is joined to it,
\* and the join is a conflict when the two come from different sides.
AppendMerge(c, mode, i0, chg0, i1, chg1, i2, chg2) ==
  IF c # <<>> /\ (i1 <= c[Len(c)].i1 + c[Len(c)].chg1
                  \/ i2 <= c[Len(c)].i2 + c[Len(c)].chg2)
  THEN LET m == c[Len(c)]
       IN  [c EXCEPT ![Len(c)] =
              [mode |-> IF mode # m.mode THEN 0 ELSE m.mode,
               i0 |-> m.i0, chg0 |-> i0 + chg0 - m.i0,
               i1 |-> m.i1, chg1 |-> i1 + chg1 - m.i1,
               i2 |-> m.i2, chg2 |-> i2 + chg2 - m.i2]]
  ELSE Append(c, [mode |-> mode, i0 |-> i0, chg0 |-> chg0,
                  i1 |-> i1, chg1 |-> chg1, i2 |-> i2, chg2 |-> chg2])

\* The conflict entry xdl_do_merge appends for two overlapping changes.
ConflictEntry(c, x1, x2) ==
  LET off == x1.i1 - x2.i1
      ffo == off + x1.chg1 - x2.chg1
      i0  == IF off > 0 THEN x1.i1 - off ELSE x1.i1
      i1  == IF off > 0 THEN x1.i2 - off ELSE x1.i2
      i2  == IF off > 0 THEN x2.i2 ELSE x2.i2 + off
      c0  == x1.i1 + x1.chg1 - i0
      c1  == x1.i2 + x1.chg2 - i1
      c2  == x2.i2 + x2.chg2 - i2
  IN  AppendMerge(c, 0, i0,
                  IF ffo < 0 THEN c0 - ffo ELSE c0,
                  i1, IF ffo < 0 THEN c1 - ffo ELSE c1,
                  i2, IF ffo < 0 THEN c2 ELSE c2 + ffo)

\* xdl_do_merge: walk the two change scripts (s1: base -> current from a,
\* s2: base -> incoming from b), collecting the merge entries in c.
RECURSIVE DoMerge(_, _, _, _, _, _, _, _)
DoMerge(base, cur, inc, s1, s2, a, b, c) ==
  IF a <= Len(s1) /\ b <= Len(s2)
  THEN LET x1 == s1[a]
           x2 == s2[b]
           e1 == x1.i1 + x1.chg1
           e2 == x2.i1 + x2.chg1
       IN  IF e1 < x2.i1
           THEN DoMerge(base, cur, inc, s1, s2, a + 1, b,
                  AppendMerge(c, 1, x1.i1, x1.chg1, x1.i2, x1.chg2,
                              x2.i2 - x2.i1 + x1.i1, x1.chg1))
           ELSE IF e2 < x1.i1
           THEN DoMerge(base, cur, inc, s1, s2, a, b + 1,
                  AppendMerge(c, 2, x2.i1, x2.chg1,
                              x1.i2 - x1.i1 + x2.i1, x2.chg1, x2.i2, x2.chg2))
           ELSE LET same == /\ x1.i1 = x2.i1 /\ x1.chg1 = x2.chg1
                            /\ x1.chg2 = x2.chg2
                            /\ Slice(cur, x1.i2, x1.chg2) = Slice(inc, x2.i2, x2.chg2)
                    c2 == IF same THEN c ELSE ConflictEntry(c, x1, x2)
                IN  DoMerge(base, cur, inc, s1, s2,
                            IF e2 >= e1 THEN a + 1 ELSE a,
                            IF e1 >= e2 THEN b + 1 ELSE b, c2)
  ELSE IF a <= Len(s1)
  THEN LET x1 == s1[a]
       IN  DoMerge(base, cur, inc, s1, s2, a + 1, b,
             AppendMerge(c, 1, x1.i1, x1.chg1, x1.i2, x1.chg2,
                         x1.i1 + Len(inc) - Len(base), x1.chg1))
  ELSE IF b <= Len(s2)
  THEN LET x2 == s2[b]
       IN  DoMerge(base, cur, inc, s1, s2, a, b + 1,
             AppendMerge(c, 2, x2.i1, x2.chg1,
                         x2.i1 + Len(cur) - Len(base), x2.chg1, x2.i2, x2.chg2))
  ELSE c

\* xdl_refine_conflicts: a conflict stays one unless both sides are non-empty
\* and equal.
IsConflict(cur, inc, m) ==
  /\ m.mode = 0
  /\ ~(/\ m.chg1 > 0 /\ m.chg2 > 0
       /\ Slice(cur, m.i1, m.chg1) = Slice(inc, m.i2, m.chg2))

\* xdl_fill_merge_buffer without conflicts: the current file, with the
\* changes of the incoming side (mode 2) put in.
RECURSIVE FillMerge(_, _, _, _, _)
FillMerge(cur, inc, c, k, pos) ==
  IF k > Len(c) THEN Slice(cur, pos, Len(cur) - pos)
  ELSE LET m == c[k]
       IN  Slice(cur, pos, m.i1 - pos)
           \o (IF m.mode = 2 THEN Slice(inc, m.i2, m.chg2)
               ELSE Slice(cur, m.i1, m.chg1))
           \o FillMerge(cur, inc, c, k + 1, m.i1 + m.chg1)

\* git merge-file -p: whether it exits with status 0 (no conflict is left;
\* otherwise the status is a positive number, which the script only tests
\* against 0) and the merged text it then prints.
GitMergeFile(cur, base, inc) ==
  LET c == DoMerge(base, cur, inc, ChangeScript(base, cur, 0, 0),
                   ChangeScript(base, inc, 0, 0), 1, 1, <<>>)
      clean == \A k \in DOMAIN c : ~IsConflict(cur, inc, c[k])
  IN  [clean |-> clean,
       result |-> IF clean THEN FillMerge(cur, inc, c, 1, 0) ELSE <<>>]

(***************************************************************************)
(* load-custom-skills.sh: the file merge.                                  *)
(***************************************************************************)
\* The lines of the incoming file the conflict fallback appends: those of
\* at least 3 characters whose first 50 characters (white space squeezed)
\* occur in no line of the current file.
SmartNewLines(current, incoming) ==
  SelectSeq(incoming,
            LAMBDA l : /\ ~(Len(LineText(l)) = 0 \/ Len(LineText(l)) < MinLineLen)
                       /\ ~GrepF(Cut(Squeeze(LineText(l))), current))

\* The destination file after three_way_merge_file and its return code.
three_way_merge_file(current, incoming, base) ==
  LET m == GitMergeFile(current, base, incoming)
  IN  IF m.clean
      THEN IF m.result # current
           THEN [file |-> m.result, rc |-> 0]
           ELSE [file |-> current, rc |-> 2]
      ELSE IF base = <<>>
           THEN [file |-> incoming, rc |-> 0]
           ELSE LET new == SmartNewLines(current, incoming)
                IN  [file |-> current \o new,
                     rc |-> IF Len(new) > 0 THEN 0 ELSE 2]

\* merge_text_file: base is what git show merge-base:path gave (empty outside
\* a git checkout, without the remote branch, or for a path the merge base
\* lacks).  Its own return code is always 0.
merge_text_file(src_file, dest_file, base) ==
  three_way_merge_file(dest_file, src_file, base).file

\* ${file##*.} of the file names of the model.
FileNames == {"SKILL.md", "logo.png"}

FileExt(name) == IF name = "SKILL.md" THEN "md" ELSE "png"

TextExts == {"md", "txt", "json", "yaml", "yml", "sh", "js", "ts", "css", "html", "xml"}

IsTextFile(name) == FileExt(name) \in TextExts

NoFile == [ex |-> FALSE, lines |-> <<>>]

File(lines) == [ex |-> TRUE, lines |-> lines]

NoDir == [ex |-> FALSE, files |-> [n \in FileNames |-> NoFile]]

\* One file of the loop of merge_skill_directory over the source files.
MergeOneFile(name, src, dest, base) ==
  IF ~src.ex THEN dest
  ELSE IF dest.ex
       THEN IF IsTextFile(name)
            THEN IF src.lines # dest.lines
                 THEN File(merge_text_file(src.lines, dest.lines, base))
                 ELSE dest
            ELSE dest
       ELSE src

\* The destination skill directory after merge_skill_directory.
merge_skill_directory(src, dest, base) ==
  IF ~dest.ex
  THEN [ex |-> TRUE, files |-> src.files]
  ELSE [ex |-> TRUE,
        files |-> [n \in FileNames |->
                     MergeOneFile(n, src.files[n], dest.files[n], base[n])]]

TextContents == SortedSeqs(NLines)

BinaryContents == {<<1>>, <<2>>}

ContentsOf(name) == IF IsTextFile(name) THEN TextContents ELSE BinaryContents

FilesOver(texts) ==
  {g \in [FileNames -> {NoFile} \cup {File(c) : c \in texts \cup BinaryContents}] :
     \A n \in FileNames :
       g[n].ex => g[n].lines \in (IF IsTextFile(n) THEN texts ELSE BinaryContents)}

\* The skill directories a clone can hold: none (NoDir: no directory with a
\* SKILL.md), or one with SKILL.md.
SrcDirsOver(texts) ==
  {NoDir} \cup {[ex |-> TRUE, files |-> f] : f \in {g \in FilesOver(texts) : g["SKILL.md"].ex}}

DestDirsOver(texts) ==
  {NoDir} \cup {[ex |-> TRUE, files |-> f] : f \in FilesOver(texts)}

BasesOver(texts) == {b \in [FileNames -> texts] : b["logo.png"] = <<>>}

(***************************************************************************)
(* load-custom-skills.sh: main.                                            *)
(***************************************************************************)
Commands == {"gh", "git", "tar"}

DefaultOpts ==
  [repo   |-> "moarora1/agenticai-development",
   branch |-> "agents-skills-update",
   skills |-> ".claude/skills",
   dest   |-> ".claude/skills"]

ArgValues == {"v1", "v2"}

\* The words of the command lines of the model: one spelling of each option,
\* a word that is no option, and values.
Tokens == {"-r", "--branch", "-s", "--dest-dir", "-h", "--version", "--bogus"}
          \cup ArgValues

RECURSIVE SeqsUpTo(_, _)
SeqsUpTo(S, n) ==
  IF n = 0 THEN {<<>>}
  ELSE SeqsUpTo(S, n - 1)
       \cup {Append(q, x) : q \in {r \in SeqsUpTo(S, n - 1) : Len(r) = n - 1}, x \in S}

ArgLists == SeqsUpTo(Tokens, MaxArgs)

OptionField_branchAsRepo(w) ==
  CASE w \in {"-r", "--repo", "-b", "--branch"} -> "repo"
    [] w \in {"-s", "--skills-path"}             -> "skills"
    [] w \in {"-d", "--dest-dir"}                -> "dest"
    [] OTHER                                     -> ""

\* The setting an option word sets ("" for a word that sets none).
OptionField(w) ==
  CASE w \in {"-r", "--repo"}        -> "repo"
    [] w \in {"-b", "--branch"}      -> "branch"
    [] w \in {"-s", "--skills-path"} -> "skills"
    [] w \in {"-d", "--dest-dir"}    -> "dest"
    [] OTHER                         -> ""

Fs == [root |-> destRoot, skill |-> destDir, discover |-> discover, agents |-> agentsMd]

\* exit N
Exit(s, status, why) == [s EXCEPT !.pc = "exited", !.status = status, !.why = why]

die_exit0(s, why) == Exit(s, 0, why)

\* die: print the error and exit 1.
die(s, why) == Exit(s, 1, why)

usage(s) == Exit(s, 0, "usage")

show_version(s) == Exit(s, 0, "version")

\* One turn of the option loop of main.
ParseWord(s) ==
  LET w == s.args[1]
  IN  IF OptionField(w) # ""
      THEN IF Len(s.args) >= 2
           THEN [s EXCEPT !.opts[OptionField(w)] = s.args[2],
                          !.args = Tail(Tail(s.args))]
           \* without a value the setting becomes empty, shift 2 fails and
           \* set -e ends the script
           ELSE Exit([s EXCEPT !.opts[OptionField(w)] = ""], 1, "shift")
      ELSE IF w \in {"-h", "--help"} THEN usage(s)
      ELSE IF w \in {"-v", "--version"} THEN show_version(s)
      ELSE Exit(s, 1, "unknown option")

ParseArg ==
  /\ sh.pc = "parse"
  /\ sh.args # <<>>
  /\ sh' = ParseWord(sh)
  /\ UNCHANGED <<installed, cloneOK, srcDir, baseOf, destRoot, destDir,
                 discover, agentsMd, fsBefore>>
  /\ UNCHANGED pageVars

\* require_cmd gh; require_cmd git; require_cmd tar
RequireCmds ==
  /\ sh.pc = "parse"
  /\ sh.args = <<>>
  /\ sh' = IF Commands \subseteq installed
           THEN [sh EXCEPT !.pc = "clone"]
           ELSE die(sh, "missing command")
  /\ UNCHANGED <<installed, cloneOK, srcDir, baseOf, destRoot, destDir,
                 discover, agentsMd, fsBefore>>
  /\ UNCHANGED pageVars

\* gh repo clone into the temporary directory
Clone ==
  /\ sh.pc = "clone"
  /\ IF cloneOK
     THEN /\ sh' = [sh EXCEPT !.pc = "merge"]
          /\ srcDir' \in SrcDirsOver({<<1>>, <<2, 3>>})
     ELSE /\ sh' = die(sh, "clone failed")
          /\ UNCHANGED srcDir
  /\ UNCHANGED <<installed, cloneOK, baseOf, destRoot, destDir,
                 discover, agentsMd, fsBefore>>
  /\ UNCHANGED pageVars

\* The words of the model that begin with "-".
DashWords == Tokens \ ArgValues

\* mkdir -p "$dir", the operand not guarded by '--': a word that begins
\* with "-" is read as an option.  --version and --help make mkdir print and
\* exit 0 without making a directory, any other such word makes it fail.
mkdir_p(dir) ==
  IF dir \in {"--version", "--help"} THEN "printed"
  ELSE IF dir \in DashWords THEN "failed"
  ELSE "made"

\* mkdir -p "$dest_skills_dir" and discover_and_merge_skills, which calls
\* merge_skill_directory for the skill, or returns 1 without one (main then
\* returns 1).  A failing mkdir ends the script (set -e).  After a mkdir
\* that only printed, every command of the merge is given a path that
\* begins with "--" and fails; discover_and_merge_skills is the condition of
\* an if, so the failures are passed over and the destination stays as it
\* was.
MergeSkills ==
  /\ sh.pc = "merge"
  /\ LET made == mkdir_p(sh.opts.dest)
     IN  IF made = "failed"
         THEN /\ sh' = Exit(sh, 1, "mkdir failed")
              /\ UNCHANGED <<destRoot, destDir>>
         ELSE /\ destRoot' = (destRoot \/ made = "made")
              /\ IF srcDir.ex
                 THEN /\ destDir' = IF made = "made"
                                    THEN merge_skill_directory(srcDir, destDir, baseOf)
                                    ELSE destDir
                      /\ sh' = [sh EXCEPT !.pc = "discover"]
                 ELSE /\ sh' = Exit(sh, 1, "no skills")
                      /\ UNCHANGED destDir
  /\ UNCHANGED <<installed, cloneOK, srcDir, baseOf, discover, agentsMd, fsBefore>>
  /\ UNCHANGED pageVars

\* generate_discover_skills > .agents/discover-skills
UpdateDiscover ==
  /\ sh.pc = "discover"
  /\ discover' = "generated"
  /\ sh' = [sh EXCEPT !.pc = "agents"]
  /\ UNCHANGED <<installed, cloneOK, srcDir, baseOf, destRoot, destDir,
                 agentsMd, fsBefore>>
  /\ UNCHANGED pageVars

\* merge_agents_md at the level of the file: without a source AGENTS.md it
\* returns 1 and set -e ends the script; without a destination the source is
\* copied; otherwise the sections are merged (or a failing command of the
\* section merge ends the script).
MergeAgents ==
  /\ sh.pc = "agents"
  /\ \E srcHas \in BOOLEAN, ok \in BOOLEAN :
       IF ~srcHas
       THEN sh' = Exit(sh, 1, "no source AGENTS.md") /\ UNCHANGED agentsMd
       ELSE IF agentsMd = "absent"
       THEN sh' = Exit(sh, 0, "done") /\ agentsMd' = "copied"
       ELSE IF ok
       THEN sh' = Exit(sh, 0, "done") /\ agentsMd' \in {agentsMd, "merged"}
       ELSE sh' = Exit(sh, 1, "section merge failed") /\ UNCHANGED agentsMd
  /\ UNCHANGED <<installed, cloneOK, srcDir, baseOf, destRoot, destDir,
                 discover, fsBefore>>
  /\ UNCHANGED pageVars

\* No page: the shell specifications leave the page variables alone.
PageIdle ==
  /\ kind = "none"
  /\ block = [classes |-> {}, rows |-> <<>>]
  /\ dom = [display |-> ""]
  /\ pending = {}
  /\ storage = {}
  /\ storageOK = TRUE
  /\ lastEv = "none"
  /\ reloadOfClosed = FALSE

ShellStart(a) ==
  [args |-> a, opts |-> DefaultOpts, pc |-> "parse", status |-> -1, why |-> ""]

LoaderInit ==
  /\ sh \in {ShellStart(a) : a \in ArgLists}
  /\ installed \in SUBSET Commands
  /\ cloneOK \in BOOLEAN
  /\ srcDir = NoDir
  /\ baseOf \in BasesOver({<<>>, <<2>>})
  /\ destRoot \in BOOLEAN
  /\ destDir \in {NoDir, [ex |-> TRUE, files |-> [n \in FileNames |-> IF n = "SKILL.md" THEN File(<<2>>) ELSE NoFile]]}
  /\ destDir.ex => destRoot
  /\ discover = (IF destDir.ex THEN "old" ELSE "absent")
  /\ agentsMd \in {"absent", "local"}
  /\ fsBefore = Fs
  /\ PageIdle

LoaderNext ==
  \/ ParseArg
  \/ RequireCmds
  \/ Clone
  \/ MergeSkills
  \/ UpdateDiscover
  \/ MergeAgents

SpecLoader == LoaderInit /\ [][LoaderNext]_vars

(***************************************************************************)
(* load-custom-skills.sh: merge_agents_md.  AGENTS.md is a sequence of     *)
(* line ids: body lines, '## ' headings, an HTML comment line and the      *)
(* empty line.                                                             *)
(***************************************************************************)
HeadingA == 7
HeadingB == 8
HeadingL == 9
CommentLine == 10
BlankLine == 11

\* /^## /
IsHeading(l) ==
  Len(LineText(l)) >= 3 /\ SubSeq(LineText(l), 1, 3) = <<"#", "#", " ">>

\* [[ "$line" =~ ^\<\!-- ]]
IsComment(l) ==
  Len(LineText(l)) >= 4 /\ SubSeq(LineText(l), 1, 4) = <<"<", "!", "-", "-">>

\* grep '^## ' file | sed 's/^## //': the sections of a file, by their
\* heading lines
SectionsOf(file) == {file[i] : i \in {j \in DOMAIN file : IsHeading(file[j])}}

\* The awk program that prints a section: from the line equal to the heading
\* h to the line before the next heading that differs from it.
RECURSIVE ExtractFrom(_, _, _, _)
ExtractFrom(file, h, i, flag) ==
  IF i > Len(file) THEN <<>>
  ELSE IF file[i] = h THEN <<h>> \o ExtractFrom(file, h, i + 1, TRUE)
  ELSE IF IsHeading(file[i]) /\ flag THEN <<>>
  ELSE IF flag THEN <<file[i]>> \o ExtractFrom(file, h, i + 1, flag)
  ELSE ExtractFrom(file, h, i + 1, flag)

ExtractSection(file, h) == ExtractFrom(file, h, 1, FALSE)

\* The index of the first comment line of file at or after i, 0 without one.
RECURSIVE FirstComment(_, _)
FirstComment(file, i) ==
  IF i > Len(file) THEN 0
  ELSE IF IsComment(file[i]) THEN i ELSE FirstComment(file, i + 1)

\* "New section in source - add it": before the first line that starts an
\* HTML comment, else at the end of the file.
InsertSection(dest, h, srcSec) ==
  LET k == FirstComment(dest, 1)
  IN  IF k # 0
      THEN SubSeq(dest, 1, k - 1) \o <<BlankLine, h>> \o Tail(srcSec) \o <<BlankLine>>
           \o SubSeq(dest, k, Len(dest))
      ELSE dest \o <<BlankLine, h>> \o Tail(srcSec)

\* The awk program that puts the merged section in the place of the section
\* with heading h.
RECURSIVE ReplaceFrom(_, _, _, _, _)
ReplaceFrom(file, h, merged, i, skip) ==
  IF i > Len(file) THEN <<>>
  ELSE IF file[i] = h THEN merged \o ReplaceFrom(file, h, merged, i + 1, TRUE)
  ELSE LET skip2 == skip /\ ~IsHeading(file[i])
       IN  (IF skip2 THEN <<>> ELSE <<file[i]>>)
           \o ReplaceFrom(file, h, merged, i + 1, skip2)

ReplaceSection(file, h, merged) == ReplaceFrom(file, h, merged, 1, FALSE)

\* One turn of the loop over the sections: the destination after the
\* section with heading h.
MergeSection(src, dest, base, h) ==
  LET srcSec  == ExtractSection(src, h)
      destSec == ExtractSection(dest, h)
      baseSec == IF base # <<>> THEN ExtractSection(base, h) ELSE <<>>
  IN  IF destSec = <<>> /\ srcSec # <<>>
      THEN InsertSection(dest, h, srcSec)
      ELSE IF destSec # <<>> /\ srcSec # <<>> /\ srcSec # destSec
      THEN LET m == three_way_merge_file(destSec, srcSec, baseSec)
           IN  IF m.rc = 0 THEN ReplaceSection(dest, h, m.file) ELSE dest
      ELSE dest

\* The headings of a set in the order of sort -u.
RECURSIVE SortHeadings(_)
SortHeadings(S) ==
  IF S = {} THEN <<>>
  ELSE LET h == CHOOSE x \in S : \A y \in S : x <= y
       IN  <<h>> \o SortHeadings(S \ {h})

RECURSIVE MergeSections(_, _, _, _)
MergeSections(src, dest, base, hs) ==
  IF hs = <<>> THEN dest
  ELSE MergeSections(src, MergeSection(src, dest, base, Head(hs)), base, Tail(hs))

\* merge_agents_md: the destination AGENTS.md it leaves and its return code.
merge_agents_md(src, dest, base) ==
  IF ~src.ex THEN [file |-> dest, rc |-> 1]
  ELSE IF ~dest.ex THEN [file |-> src, rc |-> 0]
  ELSE IF SectionsOf(src.lines) = {} THEN [file |-> dest, rc |-> 1]
  ELSE [file |-> File(MergeSections(src.lines, dest.lines, base,
                        SortHeadings(SectionsOf(src.lines) \cup SectionsOf(dest.lines)))),
        rc |-> 0]

\* The bodies of the sections of the model.
AgBodies == {<<>>, <<1>>, <<2>>, <<1, 3>>}

Section(h, body) == <<h>> \o body

\* The files made of one or two sections with the headings h1 and h2.
FilesOfSections(h1, h2) ==
  {Section(h1, b) : b \in AgBodies} \cup {Section(h2, b) : b \in AgBodies}
  \cup {Section(h1, b1) \o Section(h2, b2) : b1 \in AgBodies, b2 \in AgBodies}
  \cup {Section(h2, b2) \o Section(h1, b1) : b1 \in AgBodies, b2 \in AgBodies}

\* The AGENTS.md of the cloned repository: missing, without a heading, or
\* with the sections A and B.
SrcAgents ==
  {NoFile, File(<<1>>)} \cup {File(f) : f \in FilesOfSections(HeadingA, HeadingB)}

\* The AGENTS.md of the project: missing, or with the sections B and L and
\* possibly a comment line, at its end or right after its first heading.
DestAgents ==
  {NoFile}
  \cup {File(f) : f \in FilesOfSections(HeadingB, HeadingL)}
  \cup {File(f \o <<CommentLine>>) : f \in FilesOfSections(HeadingB, HeadingL)}
  \cup {File(<<Head(f), CommentLine>> \o Tail(f)) : f \in FilesOfSections(HeadingB, HeadingL)}

\* AGENTS.md at the merge base: nothing (no git checkout, no remote branch,
\* no such file), or the section B.
BaseAgents == {<<>>} \cup {Section(HeadingB, b) : b \in AgBodies}

\* The script at the call of merge_agents_md.
AgentsStart(src, base) ==
  [args |-> <<>>, opts |-> DefaultOpts, pc |-> "agents", status |-> -1, why |-> "",
   srcAgents |-> src, baseAgents |-> base]

\* merge_agents_md "$_CUSTOM_TMPDIR/AGENTS.md" "AGENTS.md" and the end of
\* main; a return code 1 ends the script (set -e).
MergeAgentsMd ==
  /\ sh.pc = "agents"
  /\ LET m == merge_agents_md(sh.srcAgents, agentsMd, sh.baseAgents)
     IN  /\ agentsMd' = m.file
         /\ sh' = IF m.rc = 0 THEN Exit(sh, 0, "done")
                  ELSE Exit(sh, 1, IF sh.srcAgents.ex THEN "no sections"
                                   ELSE "no source AGENTS.md")
  /\ UNCHANGED <<installed, cloneOK, srcDir, baseOf, destRoot, destDir,
                 discover, fsBefore>>
  /\ UNCHANGED pageVars

AgentsInit ==
  /\ sh \in {AgentsStart(s, b) : s \in SrcAgents, b \in BaseAgents}
  /\ installed = Commands
  /\ cloneOK = TRUE
  /\ srcDir = NoDir
  /\ baseOf = [n \in FileNames |-> <<>>]
  /\ destRoot = TRUE
  /\ destDir = NoDir
  /\ discover = "generated"
  /\ agentsMd \in DestAgents
  /\ fsBefore = Fs
  /\ PageIdle

SpecAgents == AgentsInit /\ [][MergeAgentsMd]_vars

(***************************************************************************)
(* The setup script: load_custom_skills runs the loader with the values of *)
(* the CUSTOM_SKILLS_* environment variables.                              *)
(***************************************************************************)
Settings == {"repo", "branch", "skills", "dest"}

\* An environment variable: unset, or set to a value.
Unset == [set |-> FALSE, val |-> ""]

EnvSet(v) == [set |-> TRUE, val |-> v]

\* The values of CUSTOM_SKILLS_REPO, _BRANCH, _PATH and _DEST of the model;
\* one of them reads like an option of the loader.
EnvValues == {Unset, EnvSet(""), EnvSet("v1"), EnvSet("-h")}

Environments == [Settings -> EnvValues]

\* The defaults load_custom_skills writes in its parameter expansions.
SetupDefaults ==
  [repo   |-> "moarora1/agenticai-development",
   branch |-> "agents-skills-update",
   skills |-> ".claude/skills",
   dest   |-> ".claude/skills"]

\* ${VAR:-default}
ParamDefault(v, default) == IF v.set /\ v.val # "" THEN v.val ELSE default

\* The command line load_custom_skills gives the loader.
LoaderArgs(env) ==
  << "--repo",        ParamDefault(env["repo"], SetupDefaults["repo"]),
     "--branch",      ParamDefault(env["branch"], SetupDefaults["branch"]),
     "--skills-path", ParamDefault(env["skills"], SetupDefaults["skills"]),
     "--dest-dir",    ParamDefault(env["dest"], SetupDefaults["dest"]) >>

\* The setup script (set -e) when main comes to load_base_agents_md, the
\* first of the four steps before the loader; loader says whether
\* load-custom-skills.sh is a file of the working directory.
SetupStart(env, loader) ==
  [args |-> <<>>, opts |-> DefaultOpts, pc |-> "base", status |-> -1, why |-> "",
   env |-> env, loader |-> loader]

\* load_base_agents_md: curl writes AGENTS.md over the one there is; when
\* curl fails the function returns 1 and set -e ends the script.  A backup
\* is made of, and put back for, an AGENTS.md that was there; without one
\* the part of the body a failing curl has written stays.
LoadBaseAgentsMd ==
  /\ sh.pc = "base"
  /\ \E curlOK \in BOOLEAN, wrotePart \in BOOLEAN :
       IF curlOK
       THEN sh' = [sh EXCEPT !.pc = "upskill"] /\ agentsMd' = "downloaded"
       ELSE /\ sh' = Exit(sh, 1, "download failed")
            /\ agentsMd' = IF agentsMd = "absent" /\ wrotePart THEN "partial"
                           ELSE agentsMd
  /\ UNCHANGED <<installed, cloneOK, srcDir, baseOf, destRoot, destDir,
                 discover, fsBefore>>
  /\ UNCHANGED pageVars

\* install_gh_upskill: the extension is listed, or gh extension install
\* installs it; a failing install (status 1), or gh not being a command
\* (status 127), ends the script.
InstallGhUpskill ==
  /\ sh.pc = "upskill"
  /\ IF "gh" \notin installed
     THEN sh' = Exit(sh, 127, "gh not found")
     ELSE \E listed \in BOOLEAN, installOK \in BOOLEAN :
            sh' = IF listed \/ installOK THEN [sh EXCEPT !.pc = "adobe"]
                  ELSE Exit(sh, 1, "extension failed")
  /\ UNCHANGED <<installed, cloneOK, srcDir, baseOf, destRoot, destDir,
                 discover, agentsMd, fsBefore>>
  /\ UNCHANGED pageVars

\* load_adobe_skills: gh upskill adobe/helix-website, a failure of which is
\* only warned about.  The command is the same whatever CUSTOM_SKILLS_DEST
\* is, and the extension is no code of this repository: when it succeeds
\* .claude/skills exists, it may have put a skill of the name of the custom
\* skill there, and it may have written .agents/discover-skills.  Only
\* when .claude/skills is the loader's destination do destRoot and destDir
\* speak of it.
LoadAdobeSkills ==
  /\ sh.pc = "adobe"
  /\ sh' = [sh EXCEPT !.pc = "setup"]
  /\ \E ok \in BOOLEAN :
       IF ok
       THEN /\ discover' \in {discover, "generated"}
            /\ IF LoaderArgs(sh.env)[8] = SetupDefaults["dest"]
               THEN /\ destRoot' = TRUE
                    /\ destDir' \in {destDir,
                                      [ex |-> TRUE,
                                       files |-> [n \in FileNames |->
                                                    IF n = "SKILL.md" THEN File(<<2>>)
                                                    ELSE NoFile]]}
               ELSE UNCHANGED <<destRoot, destDir>>
       ELSE UNCHANGED <<destRoot, destDir, discover>>
  /\ UNCHANGED <<installed, cloneOK, srcDir, baseOf, agentsMd, fsBefore>>
  /\ UNCHANGED pageVars

\* load_custom_skills up to the start of the loader's main; fsBefore is the
\* project as the loader finds it.
LoadCustomSkills ==
  /\ sh.pc = "setup"
  /\ sh' = IF sh.loader
           THEN [sh EXCEPT !.pc = "parse", !.args = LoaderArgs(sh.env)]
           ELSE [sh EXCEPT !.pc = "skipped"]
  /\ fsBefore' = Fs
  /\ UNCHANGED <<installed, cloneOK, srcDir, baseOf, destRoot, destDir,
                 discover, agentsMd>>
  /\ UNCHANGED pageVars

\* A project without skills, with or without an AGENTS.md of its own.  Any
\* of gh, git and tar may be missing: check_git and check_github_cli return
\* 0 also when they installed nothing (an OS that is neither macOS nor
\* Linux, a failing first command of the && list), and nothing checks tar.
SetupInit ==
  /\ sh \in {SetupStart(e, l) : e \in Environments, l \in BOOLEAN}
  /\ installed \in SUBSET Commands
  /\ cloneOK = FALSE
  /\ srcDir = NoDir
  /\ baseOf = [n \in FileNames |-> <<>>]
  /\ destRoot = FALSE
  /\ destDir = NoDir
  /\ discover = "absent"
  /\ agentsMd \in {"absent", "local"}
  /\ fsBefore = Fs
  /\ PageIdle

SetupNext ==
  \/ LoadBaseAgentsMd
  \/ InstallGhUpskill
  \/ LoadAdobeSkills
  \/ LoadCustomSkills
  \/ ParseArg
  \/ RequireCmds

SpecSetup == SetupInit /\ [][SetupNext]_vars

\* The script just before discover_and_merge_skills, for every skill
\* directory, destination directory and base of the bounds.
MergeInit ==
  /\ sh = [ShellStart(<<>>) EXCEPT !.pc = "merge"]
  /\ installed = Commands
  /\ cloneOK = TRUE
  /\ srcDir \in SrcDirsOver(TextContents)
  /\ baseOf \in BasesOver(TextContents)
  /\ destRoot = TRUE
  /\ destDir \in DestDirsOver(TextContents)
  /\ discover = "absent"
  /\ agentsMd = "absent"
  /\ fsBefore = Fs
  /\ PageIdle

SpecMerge == MergeInit /\ [][MergeSkills]_vars

(***************************************************************************)
(* Block markup.  A block is [classes, rows]; a row is what the decorators *)
(* read of it: its text content, whether it holds a cell (an inner div),   *)
(* whether it holds a link and the classes of that link.  Texts that are   *)
(* hashed are sequences of character codes, the others strings.            *)
(***************************************************************************)
Row(text, cell, link) == [text |-> text, cell |-> cell, link |-> link, linkClasses |-> {}]

\* rows[i] of the JavaScript (0-based) is defined.
HasRow(rows, i) == i < Len(rows)

RowAt(rows, i) == rows[i + 1]

\* The character codes String.prototype.trim strips: WhiteSpace and
\* LineTerminator of ECMAScript.
IsBlank(c) ==
  c \in {9, 10, 11, 12, 13, 32, 160, 5760, 8232, 8233, 8239, 8287, 12288, 65279}
         \cup (8192..8202)

RECURSIVE TrimLeft(_)
TrimLeft(t) == IF t # <<>> /\ IsBlank(t[1]) THEN TrimLeft(Tail(t)) ELSE t

RECURSIVE TrimRight(_)
TrimRight(t) ==
  IF t # <<>> /\ IsBlank(t[Len(t)]) THEN TrimRight(SubSeq(t, 1, Len(t) - 1)) ELSE t

\* String.prototype.trim on a sequence of character codes
Trim(t) == TrimRight(TrimLeft(t))

\* String.prototype.trim on the strings of the model
TrimStr(s) ==
  CASE s = " warning " -> "warning"
    [] s = " "         -> ""
    [] OTHER           -> s

\* String.prototype.toLowerCase on the strings of the model
LowerCaseStr(s) ==
  CASE s = "TRUE"  -> "true"
    [] s = "True"  -> "true"
    [] s = "FALSE" -> "false"
    [] s = "Error" -> "error"
    [] OTHER       -> s

Themes == <<"neutral", "warning", "information", "success", "error">>

(***************************************************************************)
(* The decorated alert.                                                    *)
(***************************************************************************)
AlertDom0 ==
  [title |-> FALSE, titleText |-> <<>>, description |-> FALSE, descText |-> <<>>,
   icon |-> "", cta |-> FALSE, ctaClasses |-> {}, ctaArrow |-> FALSE,
   closeButton |-> FALSE, alertKey |-> 0,
   display |-> "", role |-> "", ariaLive |-> "", ariaHidden |-> "",
   classes |-> {}, theme |-> "", variant |-> "", attached |-> TRUE]

HashMult == 31
HashMod == 2147483647

Abs(n) == IF n < 0 THEN -n ELSE n

RECURSIVE HashFrom(_, _)
HashFrom(hash, combined) ==
  IF combined = <<>> THEN hash
  ELSE HashFrom(((hash * HashMult) + combined[1]) % HashMod, Tail(combined))

\* The trimmed texts of .alert-title and .alert-description, '' for a missing
\* element.
ContentOf(d) ==
  [title |-> IF d.title THEN Trim(d.titleText) ELSE <<>>,
   desc  |-> IF d.description THEN Trim(d.descText) ELSE <<>>]

\* The number of the key "alert-dismissed-<number>", from the decorated
\* block's .alert-title and .alert-description.
generateAlertKey(d) ==
  LET title       == ContentOf(d).title
      description == ContentOf(d).desc
      combined    == title \o description
  IN  Abs(HashFrom(0, combined))

isAlertDismissed_never(alertKey, store, ok) == FALSE

\* localStorage.getItem(alertKey) === 'true'; false when localStorage throws
isAlertDismissed(alertKey, store, ok) ==
  ok /\ \E e \in store : e.key = alertKey

\* The entries localStorage holds within its quota.
StorageQuota == 1

\* localStorage.setItem(alertKey, 'true'); nothing when it throws (storage
\* unusable or full).  The entry remembers the texts of the alert that wrote
\* it.
dismissAlert(d, store, ok) ==
  LET others == {e \in store : e.key # d.alertKey}
      entry  == [key |-> d.alertKey,
                 title |-> ContentOf(d).title, desc |-> ContentOf(d).desc]
  IN  IF ok /\ (Cardinality(others) < StorageQuota)
      THEN others \cup {entry}
      ELSE store

HasCta_anyType(isBanner, rows, i) == HasRow(rows, i) /\ RowAt(rows, i).link

\* The CTA is rendered: the alert is a banner, rows[i] exists and holds a link.
HasCta(isBanner, rows, i) == isBanner /\ HasRow(rows, i) /\ RowAt(rows, i).link

\* themes.forEach: the last theme of the list the block carries
RECURSIVE LastTheme(_, _, _)
LastTheme(classes, i, found) ==
  IF i > Len(Themes) THEN found
  ELSE LastTheme(classes, i + 1, IF Themes[i] \in classes THEN Themes[i] ELSE found)

\* themeClasses.find: the first theme of the list the block carries
RECURSIVE FirstTheme(_, _)
FirstTheme(classes, i) ==
  IF i > Len(Themes) THEN "neutral"
  ELSE IF Themes[i] \in classes THEN Themes[i] ELSE FirstTheme(classes, i + 1)

\* alert.js, first decorate (the class variants, dismissal kept in
\* localStorage)
decorateLS(b, store, ok) ==
  LET rows == b.rows
      hasCloseButton == "close" \in b.classes
      alertType == IF "message" \in b.classes THEN "message" ELSE "banner"
      alertTheme == LastTheme(b.classes, 1, "neutral")
      titleText == IF HasRow(rows, 0) THEN Trim(RowAt(rows, 0).text) ELSE <<>>
      hasDesc == HasRow(rows, 1) /\ RowAt(rows, 1).cell
      hasCta == HasCta(alertType = "banner", rows, 2)
      d0 == [AlertDom0 EXCEPT
               !.title = titleText # <<>>,
               !.titleText = titleText,
               !.description = hasDesc,
               !.descText = IF hasDesc THEN RowAt(rows, 1).text ELSE <<>>,
               !.cta = hasCta,
               !.ctaClasses = IF hasCta
                              THEN RowAt(rows, 2).linkClasses \cup {"button", "primary"}
                              ELSE {},
               !.classes = b.classes]
      d1 == [d0 EXCEPT !.alertKey = IF hasCloseButton THEN generateAlertKey(d0) ELSE 0]
      ariaLive == IF alertTheme = "error" \/ alertTheme = "warning"
                  THEN "assertive" ELSE "polite"
  IN  IF hasCloseButton /\ isAlertDismissed(d1.alertKey, store, ok)
      THEN [d1 EXCEPT !.display = "none"]
      ELSE [d1 EXCEPT !.closeButton = hasCloseButton,
                      !.role = "alert", !.ariaLive = ariaLive]

RoleOf_alwaysAlert(theme) == "alert"

\* The role the row-model decorator sets.
RoleOf(theme) == IF theme = "error" \/ theme = "warning" THEN "alert" ELSE "status"

\* icons[theme] || icons.neutral
IconOf(theme) == IF theme \in Range(Themes) THEN theme ELSE "neutral"

\* alert.js, second decorate (the Universal Editor row model: classes, theme,
\* title, description, CTA, closeable)
decorateRow(b) ==
  LET rows == b.rows
      isBanner == "banner" \in b.classes
      themeText == IF HasRow(rows, 1) THEN TrimStr(RowAt(rows, 1).text) ELSE ""
      theme == IF themeText # "" THEN themeText ELSE "neutral"
      titleText == IF HasRow(rows, 2) THEN Trim(RowAt(rows, 2).text) ELSE <<>>
      \* querySelector('p, div > *'): the first element inside the row
      hasDesc == HasRow(rows, 3) /\ RowAt(rows, 3).cell
      hasCta == HasCta(isBanner, rows, 4)
      closeableText == IF HasRow(rows, 5)
                       THEN LowerCaseStr(TrimStr(RowAt(rows, 5).text)) ELSE ""
      isCloseable == closeableText = "true"
  IN  [AlertDom0 EXCEPT
         !.classes = b.classes \cup {theme},
         !.icon = IconOf(theme),
         !.title = titleText # <<>>,
         !.titleText = titleText,
         !.description = hasDesc,
         !.descText = IF hasDesc THEN RowAt(rows, 3).text ELSE <<>>,
         !.cta = hasCta,
         !.ctaClasses = IF hasCta
                        THEN RowAt(rows, 4).linkClasses \cup {"button", "primary"}
                        ELSE {},
         !.closeButton = isCloseable,
         !.role = RoleOf(theme),
         !.ariaLive = IF theme = "error" \/ theme = "warning"
                      THEN "assertive" ELSE "polite"]

\* part_001: const isBanner = block.classList.contains('banner')
IsBannerP1(classes) == "banner" \in classes

\* part_001 (the class variants, nothing stored)
decorateP1(b) ==
  LET rows == b.rows
      isBanner == IsBannerP1(b.classes)
      hasCloseButton == "close" \in b.classes
      theme == FirstTheme(b.classes, 1)
      titleText == IF HasRow(rows, 0) THEN Trim(RowAt(rows, 0).text) ELSE <<>>
      hasDesc == HasRow(rows, 1) /\ RowAt(rows, 1).cell
      hasCta == HasCta(isBanner, rows, 2)
  IN  [AlertDom0 EXCEPT
         !.classes = b.classes,
         !.icon = "icon",
         !.title = titleText # <<>>,
         !.titleText = titleText,
         !.description = hasDesc,
         !.descText = IF hasDesc THEN RowAt(rows, 1).text ELSE <<>>,
         !.cta = hasCta,
         !.ctaClasses = IF hasCta
                        THEN RowAt(rows, 2).linkClasses \cup {"button", "primary"}
                        ELSE {},
         !.ctaArrow = hasCta,
         !.closeButton = hasCloseButton,
         !.role = "alert",
         !.ariaLive = "polite",
         !.theme = theme,
         !.variant = IF isBanner THEN "banner" ELSE "message"]

AlertKinds == {"alertLS", "alertRow", "alertP1"}

decorateAlert(k, b, store, ok) ==
  CASE k = "alertLS"  -> decorateLS(b, store, ok)
    [] k = "alertRow" -> decorateRow(b)
    [] k = "alertP1"  -> decorateP1(b)

(***************************************************************************)
(* The alert markups of the model.                                         *)
(***************************************************************************)
TitleTexts == {<<>>, <<32>>, <<97>>, <<97, 98>>}

DescTexts == {<<>>, <<99>>, <<98, 99>>}

TitleRows == {Row(t, TRUE, FALSE) : t \in TitleTexts}

\* A description row: without a cell, or with a cell holding the text.
DescRows == {Row(<<>>, FALSE, FALSE)} \cup {Row(t, TRUE, FALSE) : t \in DescTexts}

CtaRows == {Row(<<>>, TRUE, FALSE), Row(<<120>>, TRUE, TRUE)}

\* The sequences <<r1, .., rk>>, k <= Len(doms), with ri in doms[i].
RECURSIVE RowSeqs(_, _)
RowSeqs(doms, k) ==
  IF k = 0 THEN {<<>>}
  ELSE RowSeqs(doms, k - 1)
       \cup {Append(q, r) : q \in {x \in RowSeqs(doms, k - 1) : Len(x) = k - 1},
                            r \in doms[k]}

\* The type is one of banner and message, or is not given; at most one theme.
TypeClasses == {{}, {"banner"}, {"message"}}

ThemeClasses == {{}, {"warning"}, {"success"}, {"error"}}

VariantClasses ==
  {t \cup th \cup c : t \in TypeClasses, th \in ThemeClasses, c \in {{}, {"close"}}}

VariantBlocks ==
  {[classes |-> c, rows |-> r] :
     c \in VariantClasses, r \in RowSeqs(<<TitleRows, DescRows, CtaRows>>, 3)}

ThemeRows ==
  {Row(t, TRUE, FALSE) :
     t \in {"", "neutral", "warning", " warning ", "information", "success", "error"}}

CloseableRows == {Row(t, TRUE, FALSE) : t \in {"", "true", "TRUE", "false"}}

RowModelBlocks ==
  {[classes |-> c, rows |-> r] :
     c \in TypeClasses,
     r \in RowSeqs(<<{Row("", TRUE, FALSE)}, ThemeRows, TitleRows, DescRows,
                     CtaRows, CloseableRows>>, 6)}

BlocksOf(k) ==
  CASE k \in {"alertLS", "alertP1"} -> VariantBlocks
    [] k = "alertRow"               -> RowModelBlocks

\* The rows of the title and of the description of a kind (0-based).
TitleIndex(k) == IF k = "alertRow" THEN 2 ELSE 0

DescIndex(k) == IF k = "alertRow" THEN 3 ELSE 1

CtaIndex(k) == IF k = "alertRow" THEN 4 ELSE 2

\* rows with rows[i] replaced by r when that row exists and keep allows it.
WithRow(rows, i, r, keep) ==
  IF HasRow(rows, i) /\ keep THEN [rows EXCEPT ![i + 1] = r] ELSE rows

\* The markups a later load can deliver for the block: the same block, the
\* texts of its title and of its description cell possibly edited.
Edited(k, b) ==
  {[b EXCEPT !.rows =
      WithRow(WithRow(b.rows, TitleIndex(k), t, TRUE), DescIndex(k), d,
              HasRow(b.rows, DescIndex(k)) /\ RowAt(b.rows, DescIndex(k)).cell)] :
     t \in TitleRows, d \in {r \in DescRows : r.cell}}

(***************************************************************************)
(* The page: loads and events.                                             *)
(***************************************************************************)
\* A page load: the block arrives as markup and its decorator runs.  Timers
\* and promises of the previous page are gone.
LoadAlert ==
  /\ kind \in AlertKinds
  /\ \E m \in Edited(kind, block) :
       /\ block' = m
       /\ dom' = decorateAlert(kind, m, storage, storageOK)
       /\ reloadOfClosed' = (lastEv = "close" /\ m = block)
  /\ pending' = {}
  /\ lastEv' = "load"
  /\ UNCHANGED <<kind, storage, storageOK>>
  /\ UNCHANGED shellVars

\* The click handler of the close button createCloseButton makes.
ClickCloseLS ==
  /\ kind = "alertLS"
  /\ dom.closeButton /\ dom.display # "none"
  /\ dom' = [dom EXCEPT !.display = "none"]
  /\ storage' = dismissAlert(dom, storage, storageOK)
  /\ lastEv' = "close"
  /\ UNCHANGED <<kind, block, pending, storageOK, reloadOfClosed>>
  /\ UNCHANGED shellVars

\* The click handler of the close button of the row-model decorator: hide,
\* and remove the block 300 ms later.
ClickCloseRow ==
  /\ kind = "alertRow"
  /\ dom.closeButton /\ dom.display # "none" /\ dom.attached
  /\ dom' = [dom EXCEPT !.display = "none"]
  /\ pending' = pending \cup {"remove"}
  /\ lastEv' = "close"
  /\ UNCHANGED <<kind, block, storage, storageOK, reloadOfClosed>>
  /\ UNCHANGED shellVars

\* setTimeout(() => block.remove(), 300)
RemoveTimer ==
  /\ kind = "alertRow"
  /\ "remove" \in pending
  /\ dom' = [dom EXCEPT !.attached = FALSE]
  /\ pending' = pending \ {"remove"}
  /\ lastEv' = "timer"
  /\ UNCHANGED <<kind, block, storage, storageOK, reloadOfClosed>>
  /\ UNCHANGED shellVars

ClickCloseP1_noHide ==
  /\ kind = "alertP1"
  /\ dom.closeButton /\ dom.display # "none"
  /\ dom' = [dom EXCEPT !.ariaHidden = "true"]
  /\ lastEv' = "close"
  /\ UNCHANGED <<kind, block, pending, storage, storageOK, reloadOfClosed>>
  /\ UNCHANGED shellVars

\* The click handler of the close button of part_001.
ClickCloseP1 ==
  /\ kind = "alertP1"
  /\ dom.closeButton /\ dom.display # "none"
  /\ dom' = [dom EXCEPT !.display = "none", !.ariaHidden = "true"]
  /\ lastEv' = "close"
  /\ UNCHANGED <<kind, block, pending, storage, storageOK, reloadOfClosed>>
  /\ UNCHANGED shellVars

\* The user clears the site's data.
ClearStorage ==
  /\ storage # {}
  /\ storage' = {}
  /\ UNCHANGED <<kind, block, dom, pending, storageOK, lastEv, reloadOfClosed>>
  /\ UNCHANGED shellVars

(***************************************************************************)
(* carousel.js.  An item of the block is a sequence of up to four rows:    *)
(* image, content group, primary CTA, secondary CTA.                       *)
(***************************************************************************)
MaxSlides == 3

\* A row of a carousel item: its picture and img, whether its paragraphs
\* sit in a cell (an inner div), the texts of its paragraphs, its link and
\* whether its text includes 'true'.  The picture and the link stand beside
\* the paragraphs; rich holds the numbers of the paragraphs with an a,
\* strong, em or picture of their own.
CRow(picture, img, cell, ps, link, newTab) ==
  [picture |-> picture, img |-> img, cell |-> cell, ps |-> ps,
   link |-> link, newTab |-> newTab, rich |-> {}]

\* The row with the paragraphs of these numbers holding inline markup.
WithRich(row, rich) == [row EXCEPT !.rich = rich]

PictureRow == CRow(TRUE, TRUE, TRUE, <<>>, FALSE, FALSE)

BarePictureRow == CRow(TRUE, FALSE, TRUE, <<>>, FALSE, FALSE)

EmptyRow == CRow(FALSE, FALSE, TRUE, <<>>, FALSE, FALSE)

ContentRow(cell, ps) == CRow(FALSE, FALSE, cell, ps, FALSE, FALSE)

LinkRow(newTab) == CRow(FALSE, FALSE, TRUE, <<>>, TRUE, newTab)

ItemMarkups ==
  { <<>>,
    <<PictureRow, ContentRow(TRUE, <<<<84>>, <<100>>>>)>>,
    <<EmptyRow, ContentRow(FALSE, <<<<84>>, <<100>>>>), LinkRow(FALSE), LinkRow(TRUE)>>,
    <<BarePictureRow, ContentRow(TRUE, <<>>), EmptyRow, LinkRow(FALSE)>>,
    \* a picture beside the paragraphs, the first paragraph in bold
    <<PictureRow, WithRich(CRow(TRUE, TRUE, TRUE, <<<<84>>, <<100>>>>, FALSE, FALSE), {1})>> }

CarouselBlocks ==
  {[classes |-> c, rows |-> r] :
     c \in {{}, {"autoplay"}}, r \in SeqsUpTo(ItemMarkups, MaxSlides)}

RECURSIVE Concat(_)
Concat(ts) == IF ts = <<>> THEN <<>> ELSE Head(ts) \o Concat(Tail(ts))

\* querySelectorAll('p, div') of the content group in document order: the
\* cell, when there is one, then the paragraphs; each with its text content
\* and whether querySelector('a, strong, em, picture') finds something in it.
ContentElems(row) ==
  (IF row.cell
   THEN <<[p |-> 0, text |-> Concat(row.ps),
           inline |-> row.picture \/ row.link \/ row.rich # {}]>>
   ELSE <<>>)
    \o [i \in 1..Len(row.ps) |->
          [p |-> i, text |-> row.ps[i], inline |-> i \in row.rich]]

\* Array.prototype.find: the first element with text and without an a,
\* strong, em or picture inside, 0 when there is none
RECURSIVE FindTitle(_, _)
FindTitle(elems, i) ==
  IF i > Len(elems) THEN 0
  ELSE IF Trim(elems[i].text) # <<>> /\ ~elems[i].inline THEN i
  ELSE FindTitle(elems, i + 1)

Cta(row, class) ==
  [classes |-> {"button", class},
   target |-> IF row.newTab THEN "_blank" ELSE "",
   rel |-> IF row.newTab THEN "noopener noreferrer" ELSE "",
   tabindex |-> ""]

createSlide(item) ==
  LET rows == item
      picture == HasRow(rows, 0) /\ RowAt(rows, 0).picture
      elems == IF HasRow(rows, 1) THEN ContentElems(RowAt(rows, 1)) ELSE <<>>
      t == FindTitle(elems, 1)
      \* the paragraphs other than the title element
      descElems == IF HasRow(rows, 1)
                   THEN {i \in 1..Len(RowAt(rows, 1).ps) : t = 0 \/ elems[t].p # i}
                   ELSE {}
      primaryCta == HasRow(rows, 2) /\ RowAt(rows, 2).link
      secondaryCta == HasRow(rows, 3) /\ RowAt(rows, 3).link
  IN  [image |-> picture,
       optimizedPic |-> picture /\ RowAt(rows, 0).img,
       title |-> t # 0,
       titleText |-> IF t # 0 THEN Trim(elems[t].text) ELSE <<>>,
       description |-> descElems # {},
       descCount |-> Cardinality(descElems),
       ctas |-> (IF primaryCta THEN <<Cta(RowAt(rows, 2), "primary")>> ELSE <<>>)
                \o (IF secondaryCta THEN <<Cta(RowAt(rows, 3), "secondary")>> ELSE <<>>),
       ariaHidden |-> ""]

\* parseInt(s, 10) of the decimal numerals the carousel stores
ParseInt(s) == CHOOSE n \in 0..(MaxSlides + 1) : ToString(n) = s

\* parseInt(block.dataset.activeSlide || '0', 10)
CurrentIndex(d) == ParseInt(IF d.activeSlide = "" THEN "0" ELSE d.activeSlide)

WrapIndex_lastPlusOne(index, totalSlides) ==
  LET t1 == IF index < 0 THEN totalSlides ELSE index
  IN  IF index >= totalSlides THEN 0 ELSE t1

WrapIndex_clamp(index, totalSlides) ==
  LET t1 == IF index < 0 THEN 0 ELSE index
  IN  IF index >= totalSlides THEN totalSlides - 1 ELSE t1

\* goToSlide, "Wrap around"
WrapIndex(index, totalSlides) ==
  LET t1 == IF index < 0 THEN totalSlides - 1 ELSE index
  IN  IF index >= totalSlides THEN 0 ELSE t1

goToSlide_addOnly(d, index) ==
  LET totalSlides == Len(d.slides)
      targetIndex == WrapIndex(index, totalSlides)
  IN  IF totalSlides = 0 THEN d
      ELSE [d EXCEPT
              !.activeSlide = ToString(targetIndex),
              !.offset = -targetIndex,
              !.indicators = [i \in 1..Len(d.indicators) |->
                                d.indicators[i] \/ (i - 1 = targetIndex)],
              !.slides = [i \in 1..totalSlides |->
                 [d.slides[i] EXCEPT
                    !.ariaHidden = IF i - 1 = targetIndex THEN "false" ELSE "true",
                    !.ctas = [j \in 1..Len(d.slides[i].ctas) |->
                       [d.slides[i].ctas[j] EXCEPT
                          !.tabindex = IF i - 1 = targetIndex THEN "" ELSE "-1"]]]]]

\* goToSlide; the offset is in units of the width of a slide, the
\* indicators are those updateIndicators leaves.
goToSlide(d, index) ==
  LET totalSlides == Len(d.slides)
      targetIndex == WrapIndex(index, totalSlides)
  IN  IF totalSlides = 0 THEN d
      ELSE [d EXCEPT
              !.activeSlide = ToString(targetIndex),
              !.offset = -targetIndex,
              !.indicators = [i \in 1..Len(d.indicators) |-> (i - 1 = targetIndex)],
              !.slides = [i \in 1..totalSlides |->
                 [d.slides[i] EXCEPT
                    !.ariaHidden = IF i - 1 = targetIndex THEN "false" ELSE "true",
                    !.ctas = [j \in 1..Len(d.slides[i].ctas) |->
                       [d.slides[i].ctas[j] EXCEPT
                          !.tabindex = IF i - 1 = targetIndex THEN "" ELSE "-1"]]]]]

AutoplayRegistered_always(classes, items) == Len(items) > 0

\* decorate registers the 5 s interval: the block has slides and carries the
\* class autoplay.
AutoplayRegistered(classes, items) == Len(items) > 0 /\ "autoplay" \in classes

\* carousel.js decorate
decorateCarousel(b) ==
  LET items == b.rows
      slides == [i \in 1..Len(items) |-> createSlide(items[i])]
      d0 == [empty |-> FALSE, slides |-> slides, activeSlide |-> "0", offset |-> 0,
             \* createNavigation: the first indicator is the active one
             indicators |-> [i \in 1..Len(items) |-> i = 1],
             listening |-> TRUE, touchStartX |-> 0, touchEndX |-> 0]
  IN  IF Len(items) = 0
      THEN [empty |-> TRUE, slides |-> <<>>, activeSlide |-> "", offset |-> 0,
            indicators |-> <<>>, listening |-> FALSE,
            touchStartX |-> 0, touchEndX |-> 0]
      ELSE goToSlide(d0, 0)

\* An event handler of the carousel ran and left d.
CarouselEvent(d, ev) ==
  /\ dom' = d
  /\ lastEv' = ev
  /\ UNCHANGED <<kind, block, pending, storage, storageOK, reloadOfClosed>>
  /\ UNCHANGED shellVars

\* click on .carousel-nav-prev
PrevClick ==
  /\ kind = "carousel" /\ dom.listening
  /\ CarouselEvent(goToSlide(dom, CurrentIndex(dom) - 1), "prev")

\* click on .carousel-nav-next
NextClick ==
  /\ kind = "carousel" /\ dom.listening
  /\ CarouselEvent(goToSlide(dom, CurrentIndex(dom) + 1), "next")

\* click on the indicator of slide i
IndicatorClick ==
  /\ kind = "carousel" /\ dom.listening
  /\ \E i \in 0..(Len(dom.indicators) - 1) :
       CarouselEvent(goToSlide(dom, i), "indicator")

Keys == {"ArrowLeft", "ArrowRight", "Enter"}

\* keydown of the key on the block
KeyDownOf(key) ==
  /\ kind = "carousel" /\ dom.listening
  /\ CarouselEvent(
       IF key = "ArrowLeft" THEN goToSlide(dom, CurrentIndex(dom) - 1)
       ELSE IF key = "ArrowRight" THEN goToSlide(dom, CurrentIndex(dom) + 1)
       ELSE dom, "key")

KeyDown == \E key \in Keys : KeyDownOf(key)

SwipeThreshold == 50

\* The screenX values of the touches of the model.
TouchXs == {0, 50, 101}

\* touchstart on the slides
TouchStart ==
  /\ kind = "carousel" /\ dom.listening
  /\ \E x \in TouchXs : CarouselEvent([dom EXCEPT !.touchStartX = x], "touchstart")

SwipeStep_atThreshold(startX, endX) ==
  IF startX - endX >= SwipeThreshold THEN 1
  ELSE IF endX - startX >= SwipeThreshold THEN -1 ELSE 0

\* The branch the touchend listener takes: 1 for 'Swipe left', -1 for
\* 'Swipe right', 0 for neither.
SwipeStep(startX, endX) ==
  IF startX - endX > SwipeThreshold THEN 1
  ELSE IF endX - startX > SwipeThreshold THEN -1 ELSE 0

\* touchend at screenX x on the slides
TouchEndAt(x) ==
  /\ kind = "carousel" /\ dom.listening
  /\ LET d == [dom EXCEPT !.touchEndX = x]
         step == SwipeStep(d.touchStartX, d.touchEndX)
     IN  CarouselEvent(
           IF step = 0 THEN d ELSE goToSlide(d, CurrentIndex(d) + step),
           "touchend")

TouchEnd == \E x \in TouchXs : TouchEndAt(x)

AutoplayTick_stay ==
  /\ kind = "carousel"
  /\ "autoplay" \in pending
  /\ CarouselEvent(goToSlide(dom, CurrentIndex(dom)), "timer")

\* A tick of the interval decorate set.
AutoplayTick ==
  /\ kind = "carousel"
  /\ "autoplay" \in pending
  /\ CarouselEvent(goToSlide(dom, CurrentIndex(dom) + 1), "timer")

(***************************************************************************)
(* download.js.  The block has up to eleven rows, one per field.  A path   *)
(* name is the sequence of its pieces, the separators "/" and "." being    *)
(* pieces of their own.                                                    *)
(***************************************************************************)
\* A row of the download block: its text, whether it holds a cell (an inner
\* div), whether it holds a link and the path name of the link's href
\* (<<>> for a link without href).
DRow(text, cell, link, pathname) ==
  [text |-> text, cell |-> cell, link |-> link, pathname |-> pathname]

TextRow(text) == DRow(text, TRUE, FALSE, <<>>)

AssetRow(pathname) == DRow("asset", TRUE, TRUE, pathname)

ReportPdf == <<"/", "docs", "/", "report", ".", "pdf">>

DefaultRows ==
  << AssetRow(ReportPdf), TextRow("Report"), TextRow(""), TextRow("Annual"),
     TextRow(""), TextRow(""), TextRow(""), TextRow(""), TextRow(""),
     TextRow(""), TextRow("") >>

AltRows ==
  << {TextRow(""), AssetRow(<<>>), AssetRow(<<"/", "docs", "/", "readme">>),
      AssetRow(<<"/", "docs", "/">>)},
     {TextRow(""), TextRow(" ")},
     {TextRow("true"), TextRow("TRUE")},
     {DRow("", FALSE, FALSE, <<>>), TextRow("")},
     {TextRow("true")},
     {TextRow("Get it")},
     {TextRow("true")},
     {TextRow("false")},
     {TextRow("false")},
     {TextRow("false")},
     {TextRow("dl-1")} >>

DownloadFields == 11

\* The rows of a download block: the default rows with at most two fields
\* set otherwise, cut after any number of rows.
DownloadRowSeqs ==
  LET full == UNION { UNION { {[[DefaultRows EXCEPT ![i] = a] EXCEPT ![j] = b] :
                                 a \in AltRows[i] \cup {DefaultRows[i]},
                                 b \in AltRows[j] \cup {DefaultRows[j]}} :
                              j \in 1..DownloadFields } :
                      i \in 1..DownloadFields }
  IN  {SubSeq(r, 1, n) : r \in full, n \in 0..DownloadFields}

DownloadBlocks == {[classes |-> {}, rows |-> r] : r \in DownloadRowSeqs}

\* The index of the last piece of path equal to sep, 0 when there is none.
RECURSIVE LastIndexOf(_, _, _)
LastIndexOf(path, sep, i) ==
  IF i = 0 THEN 0
  ELSE IF path[i] = sep THEN i ELSE LastIndexOf(path, sep, i - 1)

\* pathname.split(sep).pop()
SplitPop(path, sep) ==
  SubSeq(path, LastIndexOf(path, sep, Len(path)) + 1, Len(path))

\* String.prototype.toUpperCase on the pieces of the model
UpperCaseStr(s) ==
  CASE s = "docs"   -> "DOCS"
    [] s = "report" -> "REPORT"
    [] s = "readme" -> "README"
    [] s = "pdf"    -> "PDF"
    [] OTHER        -> s

getFileExtension(pathname) ==
  LET extension == SplitPop(pathname, ".")
  IN  [i \in 1..Len(extension) |-> UpperCaseStr(extension[i])]

getFilename(pathname) == SplitPop(pathname, "/")

Kilo == 1024

SizeUnits == <<"Bytes", "KB", "MB", "GB">>

RECURSIVE Pow(_, _)
Pow(b, e) == IF e = 0 THEN 1 ELSE b * Pow(b, e - 1)

\* Math.floor(Math.log(bytes) / Math.log(k)) for bytes >= 1
RECURSIVE LogFloor(_, _)
LogFloor(bytes, k) == IF bytes < k THEN 0 ELSE 1 + LogFloor(bytes \div k, k)

\* The text of the size tag: <<hundredths of the number shown, unit>>.
formatFileSize(bytes) ==
  IF bytes = 0 THEN <<0, "Bytes">>
  ELSE LET i == LogFloor(bytes, Kilo)
           \* Math.round((bytes / k ** i) * 100)
           rounded == (2 * 100 * bytes + Pow(Kilo, i)) \div (2 * Pow(Kilo, i))
       IN  <<rounded, SizeUnits[i + 1]>>

LoadingText == <<0, "Loading...">>

\* The content-length values getFileSize resolves to; 0 also for a failed
\* fetch and for a missing header.
FileSizes == {0, 1023, 1536, 1048576}

\* rows[i]?.textContent?.trim().toLowerCase(); "undefined" for a missing row
FlagText(rows, i) ==
  IF HasRow(rows, i) THEN LowerCaseStr(TrimStr(RowAt(rows, i).text)) ELSE "undefined"

DownloadDom0 ==
  [error |-> FALSE, container |-> FALSE, id |-> "", title |-> FALSE, titleText |-> "",
   description |-> FALSE, descText |-> "", filenameTag |-> FALSE, filename |-> <<>>,
   formatTag |-> FALSE, format |-> <<>>, sizeTag |-> FALSE, sizeText |-> LoadingText,
   metadata |-> FALSE, buttonText |-> "", href |-> <<>>, target |-> "", rel |-> "",
   download |-> <<>>]

SizeRequested_withoutAsset(b) == FlagText(b.rows, 8) # "false"

\* decorate schedules the continuation that writes the file size.
SizeRequested(b) ==
  /\ HasRow(b.rows, 0) /\ RowAt(b.rows, 0).link /\ RowAt(b.rows, 0).pathname # <<>>
  /\ FlagText(b.rows, 8) # "false"

\* download.js decorate, up to the return
decorateDownload(b) ==
  LET rows == b.rows
      assetLink == HasRow(rows, 0) /\ RowAt(rows, 0).link
      assetUrl == IF assetLink THEN RowAt(rows, 0).pathname ELSE <<>>
      titleText == IF HasRow(rows, 1) THEN TrimStr(RowAt(rows, 1).text) ELSE ""
      getTitleFromDAM == FlagText(rows, 2) = "true"
      descriptionContent == HasRow(rows, 3) /\ RowAt(rows, 3).cell
      getDescFromDAM == FlagText(rows, 4) = "true"
      buttonTrim == IF HasRow(rows, 5) THEN TrimStr(RowAt(rows, 5).text) ELSE ""
      buttonText == IF buttonTrim # "" THEN buttonTrim ELSE "Download"
      displayInline == FlagText(rows, 6) = "true"
      displayFilename == FlagText(rows, 7) # "false"
      displayFileSize == FlagText(rows, 8) # "false"
      displayFileFormat == FlagText(rows, 9) # "false"
      customId == IF HasRow(rows, 10) THEN TrimStr(RowAt(rows, 10).text) ELSE ""
      filename == getFilename(assetUrl)
      extension == getFileExtension(assetUrl)
      hasDesc == descriptionContent /\ ~getDescFromDAM
  IN  IF assetUrl = <<>>
      THEN [DownloadDom0 EXCEPT !.error = TRUE]
      ELSE [DownloadDom0 EXCEPT
              !.container = TRUE,
              !.id = customId,
              !.title = titleText # "" /\ ~getTitleFromDAM,
              !.titleText = IF titleText # "" /\ ~getTitleFromDAM THEN titleText ELSE "",
              !.description = hasDesc,
              !.descText = IF hasDesc THEN RowAt(rows, 3).text ELSE "",
              !.filenameTag = displayFilename /\ filename # <<>>,
              !.filename = IF displayFilename THEN filename ELSE <<>>,
              !.formatTag = displayFileFormat /\ extension # <<>>,
              !.format = IF displayFileFormat THEN extension ELSE <<>>,
              !.sizeTag = displayFileSize,
              !.metadata = \/ displayFilename /\ filename # <<>>
                           \/ displayFileFormat /\ extension # <<>>
                           \/ displayFileSize,
              !.buttonText = buttonText,
              !.href = assetUrl,
              !.target = IF displayInline THEN "_blank" ELSE "",
              !.rel = IF displayInline THEN "noopener noreferrer" ELSE "",
              !.download = IF displayInline THEN <<>> ELSE filename]

\* getFileSize(assetUrl).then(size => sizeTag.textContent = formatFileSize(size))
SizeResolved ==
  /\ kind = "download"
  /\ "size" \in pending
  /\ \E size \in FileSizes : dom' = [dom EXCEPT !.sizeText = formatFileSize(size)]
  /\ pending' = pending \ {"size"}
  /\ lastEv' = "promise"
  /\ UNCHANGED <<kind, block, storage, storageOK, reloadOfClosed>>
  /\ UNCHANGED shellVars

(***************************************************************************)
(* downloads.js.  A row of the block is a heading or an item; an item has  *)
(* up to five field rows: label, description, path, icon, same tab.        *)
(***************************************************************************)
MaxItems == 3

\* A field row of an item: its text (character codes) and whether it holds
\* a link.
Field(text, link) == [text |-> text, link |-> link]

\* A row of the block: whether it holds a heading element (h2..h6), and its
\* field rows.
ItemRow(heading, fields) == [heading |-> heading, fields |-> fields]

\* "Files", "Spec", "a pdf", "PDF", "true" as character codes
TxtFiles == <<70, 105, 108, 101, 115>>

TxtSpec == <<83, 112, 101, 99>>

TxtNote == <<32, 97, 32>>

TxtPDF == <<80, 68, 70>>

TxtTrue == <<116, 114, 117, 101>>

DownloadsRows ==
  { ItemRow(TRUE, <<Field(TxtFiles, FALSE)>>),
    ItemRow(FALSE, <<Field(TxtFiles, FALSE)>>),
    ItemRow(FALSE, <<>>),
    ItemRow(FALSE, <<Field(TxtSpec, FALSE), Field(TxtNote, FALSE), Field(<<>>, TRUE),
                     Field(TxtPDF, FALSE), Field(TxtTrue, FALSE)>>),
    ItemRow(FALSE, <<Field(TxtSpec, FALSE), Field(<<32>>, FALSE), Field(<<>>, TRUE)>>),
    ItemRow(FALSE, <<Field(TxtSpec, FALSE), Field(TxtNote, FALSE), Field(<<>>, FALSE)>>),
    ItemRow(FALSE, <<Field(<<>>, FALSE), Field(TxtNote, FALSE), Field(<<>>, TRUE)>>) }

DownloadsBlocks ==
  {[classes |-> {}, rows |-> r] : r \in SeqsUpTo(DownloadsRows, MaxItems)}

\* String.prototype.toLowerCase on character codes
LowerCase(t) == [i \in 1..Len(t) |-> IF t[i] \in 65..90 THEN t[i] + 32 ELSE t[i]]

\* textContent of a row: the texts of its field rows
RowText(row) == Concat([i \in 1..Len(row.fields) |-> row.fields[i].text])

RowHasLink(row) == \E i \in 1..Len(row.fields) : row.fields[i].link

FieldText(fields, i) == IF HasRow(fields, i) THEN Trim(RowAt(fields, i).text) ELSE <<>>

\* iconMap[iconType] || '': "PDF" for pdf, among the types of the model
createIcon(iconType) ==
  [type |-> iconType,
   text |-> IF iconType = LowerCase(TxtPDF) THEN TxtPDF ELSE <<>>]

NoItem == [skipped |-> TRUE]

\* processDownloadItem: NoItem is the null it returns
processDownloadItem(row) ==
  LET rows == row.fields
      label == FieldText(rows, 0)
      description == FieldText(rows, 1)
      link == HasRow(rows, 2) /\ RowAt(rows, 2).link
      iconType == LowerCase(FieldText(rows, 3))
      sameTab == LowerCase(FieldText(rows, 4)) = TxtTrue
  IN  IF ~link \/ label = <<>>
      THEN NoItem
      ELSE [skipped |-> FALSE,
            icon |-> iconType # <<>>,
            iconText |-> IF iconType # <<>> THEN createIcon(iconType).text ELSE <<>>,
            label |-> label,
            target |-> IF sameTab THEN "" ELSE "_blank",
            rel |-> IF sameTab THEN "" ELSE "noopener noreferrer",
            description |-> description # <<>>,
            descText |-> description]

\* The items of rows[i..] that processDownloadItem does not skip.
RECURSIVE ProcessFrom(_, _)
ProcessFrom(rows, i) ==
  IF i >= Len(rows) THEN <<>>
  ELSE LET item == processDownloadItem(RowAt(rows, i))
       IN  (IF item.skipped THEN <<>> ELSE <<item>>) \o ProcessFrom(rows, i + 1)

\* downloads.js decorate
decorateDownloads(b) ==
  LET rows == b.rows
      firstRowText == IF Len(rows) > 0 THEN Trim(RowText(RowAt(rows, 0))) ELSE <<>>
      hasHeading == /\ Len(rows) > 0
                    /\ \/ RowAt(rows, 0).heading
                       \/ firstRowText # <<>> /\ ~RowHasLink(RowAt(rows, 0))
      heading == hasHeading /\ firstRowText # <<>>
      startIndex == IF heading THEN 1 ELSE 0
  IN  [heading |-> heading,
       headingText |-> IF heading THEN firstRowText ELSE <<>>,
       items |-> ProcessFrom(rows, startIndex)]

(***************************************************************************)
(* The icon-tile block.  An item has up to three rows: icon, title,        *)
(* description.                                                            *)
(***************************************************************************)
MaxTiles == 3

\* A row of a tile: its picture, its text, whether it holds a cell.
TRow(picture, text, cell) == [picture |-> picture, text |-> text, cell |-> cell]

TileMarkups ==
  { <<>>,
    <<TRow(TRUE, <<>>, TRUE)>>,
    <<TRow(TRUE, <<>>, TRUE), TRow(FALSE, TxtSpec, TRUE)>>,
    <<TRow(FALSE, <<>>, TRUE), TRow(FALSE, <<32>>, TRUE), TRow(FALSE, TxtNote, TRUE)>>,
    <<TRow(TRUE, <<>>, TRUE), TRow(FALSE, TxtSpec, TRUE), TRow(FALSE, <<>>, TRUE)>>,
    <<TRow(TRUE, <<>>, TRUE), TRow(FALSE, TxtSpec, TRUE), TRow(FALSE, <<>>, FALSE)>> }

TileBlocks ==
  {[classes |-> {}, rows |-> r] : r \in SeqsUpTo(TileMarkups, MaxTiles)}

decorateTileItem(item) ==
  LET rows == item
      titleText == IF HasRow(rows, 1) THEN Trim(RowAt(rows, 1).text) ELSE <<>>
      hasDesc == /\ HasRow(rows, 2)
                 /\ RowAt(rows, 2).cell
                 /\ Trim(RowAt(rows, 2).text) # <<>>
  IN  [icon |-> HasRow(rows, 0) /\ RowAt(rows, 0).picture,
       title |-> titleText # <<>>,
       titleText |-> titleText,
       description |-> hasDesc,
       descText |-> IF hasDesc THEN RowAt(rows, 2).text ELSE <<>>]

\* The decorate of the icon-tile block
decorateTiles(b) ==
  LET items == b.rows
      tileCount == Len(items)
  IN  [tiles |-> [i \in 1..tileCount |-> decorateTileItem(items[i])],
       classes |-> b.classes \cup (IF tileCount = 1 THEN {"one-tile"}
                                   ELSE IF tileCount = 2 THEN {"two-tiles"} ELSE {})]

(***************************************************************************)
(* The page with one block.                                                *)
(***************************************************************************)
Kinds == AlertKinds \cup {"carousel", "download", "downloads", "iconTile"}

OtherBlocksOf(k) ==
  CASE k = "carousel"  -> CarouselBlocks
    [] k = "download"  -> DownloadBlocks
    [] k = "downloads" -> DownloadsBlocks
    [] k = "iconTile"  -> TileBlocks

\* The DOM of the block when its decorate has returned.
decorateBlock(k, b) ==
  CASE k = "carousel"  -> decorateCarousel(b)
    [] k = "download"  -> decorateDownload(b)
    [] k = "downloads" -> decorateDownloads(b)
    [] k = "iconTile"  -> decorateTiles(b)

\* The callbacks a decorate has left behind when it returns.
Deferred(k, b) ==
  CASE k = "carousel" -> IF AutoplayRegistered(b.classes, b.rows) THEN {"autoplay"} ELSE {}
    [] k = "download" -> IF SizeRequested(b) THEN {"size"} ELSE {}
    [] OTHER          -> {}

\* A load of the page of a block other than an alert.
LoadBlock ==
  /\ kind \in Kinds \ AlertKinds
  /\ dom' = decorateBlock(kind, block)
  /\ pending' = Deferred(kind, block)
  /\ lastEv' = "load"
  /\ UNCHANGED <<kind, block, storage, storageOK, reloadOfClosed>>
  /\ UNCHANGED shellVars

ShellIdle ==
  /\ sh = ShellStart(<<>>)
  /\ installed = {}
  /\ cloneOK = FALSE
  /\ srcDir = NoDir
  /\ baseOf = [n \in FileNames |-> <<>>]
  /\ destRoot = FALSE
  /\ destDir = NoDir
  /\ discover = "absent"
  /\ agentsMd = "absent"
  /\ fsBefore = Fs

\* The first load of a page with one block, localStorage still empty.
PageInit ==
  /\ kind \in Kinds
  /\ storageOK \in BOOLEAN
  /\ storage = {}
  /\ \/ /\ kind \in AlertKinds
        /\ block \in BlocksOf(kind)
        /\ dom = decorateAlert(kind, block, storage, storageOK)
        /\ pending = {}
     \/ /\ kind \notin AlertKinds
        /\ storageOK
        /\ block \in OtherBlocksOf(kind)
        /\ dom = decorateBlock(kind, block)
        /\ pending = Deferred(kind, block)
  /\ lastEv = "load"
  /\ reloadOfClosed = FALSE
  /\ ShellIdle

PageNext ==
  \/ LoadAlert
  \/ ClickCloseLS
  \/ ClickCloseRow
  \/ RemoveTimer
  \/ ClickCloseP1
  \/ ClearStorage
  \/ LoadBlock
  \/ PrevClick
  \/ NextClick
  \/ IndicatorClick
  \/ KeyDown
  \/ TouchStart
  \/ TouchEnd
  \/ AutoplayTick
  \/ SizeResolved

SpecPage == PageInit /\ [][PageNext]_vars

(***************************************************************************)
(* The claims.                                                             *)
(***************************************************************************)
Merged == sh.pc = "discover"

\* C1: merge_skill_directory preserves local changes: every line a text file
\* of the destination has and its base lacks is still in the file after the
\* merge, whatever the source file and the base (an empty base included).
C1_LocalLinesKept ==
  Merged =>
    \A n \in FileNames :
      (fsBefore.skill.ex /\ fsBefore.skill.files[n].ex /\ IsTextFile(n)) =>
        \A l \in Range(fsBefore.skill.files[n].lines) \ Range(baseOf[n]) :
          l \in Range(destDir.files[n].lines)

Loaded(k) == kind = k /\ lastEv = "load"

\* C3: in the localStorage decorator, a load of a closeable alert whose title
\* and description are those of an alert that was closed, the entry still in
\* localStorage, leaves the block hidden and without a close button.
C3_DismissedStaysHidden ==
  (/\ Loaded("alertLS")
   /\ "close" \in block.classes
   /\ \E e \in storage : e.title = ContentOf(dom).title /\ e.desc = ContentOf(dom).desc)
    => (dom.display = "none" /\ ~dom.closeButton)

C3_Witness ==
  /\ Loaded("alertLS")
  /\ reloadOfClosed
  /\ storage # {}
  /\ dom.title /\ dom.description
  /\ dom.display = "none"

\* The markup asks for a close button.
Closeable ==
  CASE kind = "alertRow" ->
         HasRow(block.rows, 5) /\ RowAt(block.rows, 5).text \in {"true", "TRUE"}
    [] kind = "alertP1" -> "close" \in block.classes
    [] OTHER -> FALSE

\* C4: in the row-model decorator and in part_001 the close button hides the
\* block, nothing is stored, and every load of closeable markup, one after a
\* close included, shows the alert with its close button.
C4_ClosedReappearsOnReload ==
  kind \in {"alertRow", "alertP1"} =>
    /\ lastEv = "close" => dom.display = "none"
    /\ storage = {}
    /\ (lastEv = "load" /\ Closeable) =>
         (dom.display # "none" /\ dom.closeButton /\ dom.attached)

C4_Witness ==
  /\ Loaded("alertRow")
  /\ reloadOfClosed
  /\ dom.closeButton
  /\ dom.display # "none"

\* The theme the row-model markup gives: the trimmed text of rows[1], neutral
\* when the row is missing or empty.
MarkupTheme ==
  IF HasRow(block.rows, 1) /\ RowAt(block.rows, 1).text \notin {"", " "}
  THEN (IF RowAt(block.rows, 1).text = " warning " THEN "warning"
        ELSE RowAt(block.rows, 1).text)
  ELSE "neutral"

\* C5: after the row-model decorate the role is alert exactly for the themes
\* error and warning and status for every other theme, a missing theme row
\* included, and aria-live is assertive exactly when the role is alert and
\* polite otherwise.
C5_RoleFollowsTheme ==
  kind = "alertRow" =>
    /\ dom.role = "alert" <=> MarkupTheme \in {"error", "warning"}
    /\ dom.role # "alert" => dom.role = "status"
    /\ dom.ariaLive = "assertive" <=> dom.role = "alert"
    /\ dom.ariaLive # "assertive" => dom.ariaLive = "polite"

C5_Witness ==
  /\ Loaded("alertRow")
  /\ Len(block.rows) = 1
  /\ dom.role = "status"
  /\ dom.ariaLive = "polite"

CtaRowHasLink ==
  HasRow(block.rows, CtaIndex(kind)) /\ RowAt(block.rows, CtaIndex(kind)).link

\* C6: in the three alert decorators an alert-cta exists only for an alert
\* that is not of message type and whose CTA row holds a link; a message
\* alert has no CTA whatever its rows hold; a rendered CTA link carries the
\* classes button and primary.
C6_CtaOnlyForBanner ==
  kind \in AlertKinds =>
    /\ dom.cta => ("message" \notin block.classes /\ CtaRowHasLink)
    /\ "message" \in block.classes => ~dom.cta
    /\ dom.cta => {"button", "primary"} \subseteq dom.ctaClasses

C6_Witness ==
  /\ Loaded("alertRow")
  /\ "banner" \in block.classes
  /\ dom.cta
  /\ dom.ctaClasses = {"button", "primary"}

\* C7: in the class-variant decorators a block with neither the banner nor
\* the message class is a banner: its CTA is rendered when the CTA row holds
\* a link, and part_001 reports the variant banner.
C7_BannerIsDefault ==
  (/\ kind \in {"alertLS", "alertP1"}
   /\ "banner" \notin block.classes
   /\ "message" \notin block.classes)
    => /\ CtaRowHasLink => dom.cta
       /\ kind = "alertP1" => dom.variant = "banner"

\* C8: an alert that a load hides as dismissed has the title and the
\* description of the alert that wrote the entry: the same key means the same
\* title text and the same description text.
C8_SameKeySameContent ==
  (/\ Loaded("alertLS")
   /\ "close" \in block.classes
   /\ dom.display = "none")
    => \E e \in storage :
         /\ e.key = dom.alertKey
         /\ e.title = ContentOf(dom).title
         /\ e.desc = ContentOf(dom).desc

\* The callbacks a decorate has left behind are those of the three places
\* that make one.
DeferredOK ==
  /\ kind \in {"alertLS", "alertP1", "downloads", "iconTile"} => pending = {}
  /\ kind = "alertRow" =>
       /\ pending \subseteq {"remove"}
       /\ "remove" \in pending => (dom.closeButton /\ dom.display = "none")
  /\ kind = "carousel" =>
       pending = IF "autoplay" \in block.classes /\ Len(block.rows) > 0
                 THEN {"autoplay"} ELSE {}
  /\ kind = "download" =>
       /\ pending \subseteq {"size"}
       /\ "size" \in pending =>
            (~dom.error /\ dom.sizeTag /\ dom.sizeText = LoadingText)

\* A timer or a promise continuation ran.
CallbackStep == RemoveTimer \/ AutoplayTick \/ SizeResolved

\* C2 (as stated): once decorate has returned, no timer and no promise
\* continuation of the decorator changes the block's DOM.
C2_NoDeferredChange == [][CallbackStep => dom' = dom]_vars

\* C2: the decorators run to their return without interruption, and the only
\* callbacks that change the DOM afterwards are the removal timer a close
\* click of the row-model alert starts, the 5 s interval of a carousel with
\* the class autoplay, and the file-size continuation of a download block
\* with an asset whose size is to be shown; each changes only what is said
\* here.
C2_DeferredCallbacks ==
  /\ DeferredOK
  /\ [][/\ DeferredOK'
        /\ (dom' # dom /\ lastEv' \in {"timer", "promise"}) =>
             \/ /\ kind = "alertRow" /\ "remove" \in pending
                /\ dom' = [dom EXCEPT !.attached = FALSE]
             \/ /\ kind = "carousel" /\ "autoplay" \in block.classes
                /\ dom' = goToSlide(dom, CurrentIndex(dom) + 1)
             \/ /\ kind = "download" /\ "size" \in pending
                /\ \E size \in FileSizes :
                     dom' = [dom EXCEPT !.sizeText = formatFileSize(size)]]_vars

C2_Witness ==
  /\ kind = "download"
  /\ lastEv = "promise"
  /\ dom.sizeTag
  /\ dom.sizeText = <<150, "KB">>

\* The text of rows[i] is missing or blank.
NoText(rows, i) == ~HasRow(rows, i) \/ Trim(RowAt(rows, i).text) = <<>>

\* rows[i] holds no cell with text.
NoCellText(rows, i) ==
  ~HasRow(rows, i) \/ ~RowAt(rows, i).cell \/ Trim(RowAt(rows, i).text) = <<>>

AlertFieldsSkipped ==
  /\ NoText(block.rows, TitleIndex(kind)) => ~dom.title
  /\ NoCellText(block.rows, DescIndex(kind)) => ~dom.description
  /\ ~CtaRowHasLink => ~dom.cta

CarouselFieldsSkipped ==
  /\ Len(block.rows) = 0 => dom.empty
  /\ \A i \in 1..Len(block.rows) :
       LET item == block.rows[i]
           slide == dom.slides[i]
       IN  /\ (~HasRow(item, 0) \/ ~RowAt(item, 0).picture) => ~slide.image
           /\ (~HasRow(item, 1) \/ RowAt(item, 1).ps = <<>>) =>
                (~slide.title /\ ~slide.description)
           /\ (\A j \in 2..3 : ~HasRow(item, j) \/ ~RowAt(item, j).link) =>
                slide.ctas = <<>>

DownloadFieldsSkipped ==
  /\ (~HasRow(block.rows, 0) \/ ~RowAt(block.rows, 0).link) => dom.error
  /\ ~dom.error =>
       /\ (~HasRow(block.rows, 1) \/ TrimStr(RowAt(block.rows, 1).text) = "")
            => ~dom.title
       /\ (\/ ~HasRow(block.rows, 3)
           \/ ~RowAt(block.rows, 3).cell
           \/ TrimStr(RowAt(block.rows, 3).text) = "") => ~dom.description
       /\ (~HasRow(block.rows, 10) \/ TrimStr(RowAt(block.rows, 10).text) = "")
            => dom.id = ""

DownloadsFieldsSkipped ==
  /\ Len(block.rows) = 0 => (~dom.heading /\ dom.items = <<>>)
  /\ \A i \in 1..Len(dom.items) :
       /\ dom.items[i].description => dom.items[i].descText # <<>>
       /\ dom.items[i].label # <<>>

TileFieldsSkipped ==
  /\ Len(dom.tiles) = Len(block.rows)
  /\ \A i \in 1..Len(block.rows) :
       LET item == block.rows[i]
           tile == dom.tiles[i]
       IN  /\ (~HasRow(item, 0) \/ ~RowAt(item, 0).picture) => ~tile.icon
           /\ NoText(item, 1) => ~tile.title
           /\ NoCellText(item, 2) => ~tile.description

\* C9: every decorator completes for a block with any number of rows and with
\* any of its optional cells empty, and a field that is absent (its row is
\* missing, or its cell is empty) leaves no element for that field in the
\* decorated block.
C9_AbsentFieldsSkipped ==
  /\ kind \in AlertKinds => AlertFieldsSkipped
  /\ kind = "carousel" => CarouselFieldsSkipped
  /\ kind = "download" => DownloadFieldsSkipped
  /\ kind = "downloads" => DownloadsFieldsSkipped
  /\ kind = "iconTile" => TileFieldsSkipped

EarlyExit ==
  sh.pc = "exited" /\ sh.why \in {"unknown option", "missing command", "clone failed"}

\* C10: load-custom-skills ends with exit status 1 on an unknown option, a
\* missing required command or a failed clone, and has then not created or
\* changed the destination skills directory, .agents/discover-skills or
\* AGENTS.md.
C10_EarlyExitStatus1NoChange ==
  /\ EarlyExit => (sh.status = 1 /\ Fs = fsBefore)
  /\ (sh.pc \in {"merge", "discover", "agents"} \/ Fs # fsBefore) =>
       (Commands \subseteq installed /\ cloneOK)

C10_Witness ==
  /\ EarlyExit
  /\ sh.why = "clone failed"
  /\ fsBefore.skill.ex
  /\ sh.opts.repo = "v1"

\* The value load_custom_skills is to pass for a setting.
Wanted(f) ==
  IF sh.env[f].set /\ sh.env[f].val # "" THEN sh.env[f].val ELSE DefaultOpts[f]

\* The settings whose option the loop of main has not reached yet, by the
\* number of words left.
NotYetSet ==
  CASE Len(sh.args) = 8 -> {"repo", "branch", "skills", "dest"}
    [] Len(sh.args) = 6 -> {"branch", "skills", "dest"}
    [] Len(sh.args) = 4 -> {"skills", "dest"}
    [] Len(sh.args) = 2 -> {"dest"}
    [] OTHER            -> {}

\* The loader was started by load_custom_skills.
LoaderStarted ==
  \/ sh.pc \in {"parse", "clone"}
  \/ sh.pc = "exited" /\ sh.why \notin {"download failed", "gh not found", "extension failed"}

\* C11: load_custom_skills passes for each of the four settings the value of
\* its CUSTOM_SKILLS_* variable when that is set and not empty, else a
\* default equal to the loader's; each turn of the option loop assigns the
\* value to its own setting and leaves the others as they were, so the loop
\* ends with exactly the wanted four values and never with an exit.
C11_EnvValuesReachSettings ==
  LoaderStarted =>
    /\ \A f \in Settings :
         sh.opts[f] = IF f \in NotYetSet THEN DefaultOpts[f] ELSE Wanted(f)
    /\ sh.pc = "exited" => sh.why = "missing command"
    /\ sh.pc = "parse" => Len(sh.args) \in {0, 2, 4, 6, 8}

C11_Witness ==
  /\ sh.pc = "clone"
  /\ sh.env["repo"] = Unset
  /\ sh.env["branch"] = EnvSet("-h")
  /\ sh.env["skills"] = EnvSet("")
  /\ sh.env["dest"] = EnvSet("v1")
  /\ sh.opts = [repo |-> "moarora1/agenticai-development", branch |-> "-h",
                skills |-> ".claude/skills", dest |-> "v1"]

\* A file without its empty lines at the end.
RECURSIVE StripBlanks(_)
StripBlanks(f) ==
  IF f # <<>> /\ f[Len(f)] = BlankLine THEN StripBlanks(SubSeq(f, 1, Len(f) - 1)) ELSE f

\* The sections of the destination that the source lacks.
LocalSections ==
  SectionsOf(fsBefore.agents.lines) \ SectionsOf(sh.srcAgents.lines)

\* C12: merge_agents_md keeps local sections: with a destination AGENTS.md,
\* every section of the destination that the source lacks has after the
\* merge the heading and the lines it had before (empty lines at its end
\* aside), whatever sections the source adds or changes.
C12_LocalSectionsKept ==
  (sh.pc = "exited" /\ fsBefore.agents.ex /\ agentsMd.ex) =>
    \A h \in LocalSections :
      StripBlanks(ExtractSection(agentsMd.lines, h))
        = StripBlanks(ExtractSection(fsBefore.agents.lines, h))

\* A carousel block with at least one item, decorated.
Carousel == kind = "carousel" /\ Len(block.rows) >= 1

\* C13: after decorate of a carousel block with n >= 1 items and after any
\* sequence of previous/next clicks, indicator clicks, key presses, swipes
\* and autoplay ticks, dataset.activeSlide is the numeral of an integer in
\* 0..n-1.
C13_ActiveSlideInRange ==
  Carousel =>
    \E i \in 0..(Len(block.rows) - 1) : dom.activeSlide = ToString(i)

C13_Witness ==
  /\ Carousel
  /\ Len(block.rows) = 3
  /\ lastEv = "prev"
  /\ dom.activeSlide = "2"
  /\ dom.touchStartX = 101

\* The numbers of the slides with a property, counted from 0.
SlidesWhere(P(_)) == {i - 1 : i \in {j \in 1..Len(dom.slides) : P(dom.slides[j])}}

IsShown(slide) == slide.ariaHidden = "false"

HasTabindex(slide) == \E j \in 1..Len(slide.ctas) : slide.ctas[j].tabindex # ""

AllTabindexMinus1(slide) == \A j \in 1..Len(slide.ctas) : slide.ctas[j].tabindex = "-1"

\* C14: from the end of decorate and after every navigation event of a
\* carousel with slides, exactly one indicator is active, exactly one slide
\* has aria-hidden false, both are the slide dataset.activeSlide numbers,
\* the links of every other slide have tabindex -1 and those of the active
\* slide have no tabindex.
C14_SingleActive ==
  Carousel =>
    LET n == Len(block.rows)
        a == CurrentIndex(dom)
    IN  /\ Len(dom.slides) = n /\ Len(dom.indicators) = n
        /\ {i \in 0..(n - 1) : dom.indicators[i + 1]} = {a}
        /\ SlidesWhere(IsShown) = {a}
        /\ \A i \in 1..n : dom.slides[i].ariaHidden \in {"true", "false"}
        /\ \A i \in 1..n :
             IF i - 1 = a THEN ~HasTabindex(dom.slides[i])
             ELSE AllTabindexMinus1(dom.slides[i])

C14_Witness ==
  /\ Carousel
  /\ lastEv = "indicator"
  /\ dom.activeSlide = "1"
  /\ Len(dom.slides) = 3
  /\ \A i \in 1..3 : Len(dom.slides[i].ctas) >= 1
  /\ dom.indicators = <<FALSE, TRUE, FALSE>>
  /\ dom.slides[1].ctas[1].tabindex = "-1"
  /\ dom.slides[2].ctas[1].tabindex = ""

\* A next action: the next button, ArrowRight, a swipe left, an autoplay tick.
NextAction ==
  \/ NextClick
  \/ KeyDownOf("ArrowRight")
  \/ \E x \in TouchXs : dom.touchStartX - x > SwipeThreshold /\ TouchEndAt(x)
  \/ AutoplayTick

\* A previous action: the previous button, ArrowLeft, a swipe right.
PrevAction ==
  \/ PrevClick
  \/ KeyDownOf("ArrowLeft")
  \/ \E x \in TouchXs : x - dom.touchStartX > SwipeThreshold /\ TouchEndAt(x)

\* C15: with n slides and active slide i, a next action makes slide
\* (i+1) mod n active, a previous action makes slide (i-1) mod n active,
\* and a previous action after a next action restores i.
C15_WrapAround ==
  [][Carousel =>
       LET n == Len(dom.slides)
           i == CurrentIndex(dom)
           afterNext == goToSlide(dom, i + 1)
       IN  /\ NextAction => CurrentIndex(dom)' = (i + 1) % n
           /\ PrevAction => CurrentIndex(dom)' = (i - 1) % n
           /\ CurrentIndex(goToSlide(afterNext, CurrentIndex(afterNext) - 1)) = i]_vars

C15_Witness ==
  /\ Carousel
  /\ Len(dom.slides) = 3
  /\ lastEv = "next"
  /\ dom.activeSlide = "0"
  /\ dom.touchEndX = 101
  /\ "autoplay" \in pending

\* C17: a touchend at x1 after a touchstart at x0 moves to the next slide
\* when x0 - x1 > 50, to the previous slide when x1 - x0 > 50, and leaves
\* the active slide, the indicators and the slides' ARIA state as they
\* were when the distance is 50 or less.
C17_SwipeThreshold ==
  [][\A x1 \in TouchXs :
       (Carousel /\ TouchEndAt(x1)) =>
         LET x0 == dom.touchStartX
             n == Len(dom.slides)
             i == CurrentIndex(dom)
         IN  /\ x0 - x1 > 50 => CurrentIndex(dom)' = (i + 1) % n
             /\ x1 - x0 > 50 => CurrentIndex(dom)' = (i - 1) % n
             /\ Abs(x0 - x1) <= 50 =>
                  /\ dom'.activeSlide = dom.activeSlide
                  /\ dom'.indicators = dom.indicators
                  /\ dom'.slides = dom.slides
                  /\ dom'.offset = dom.offset]_vars

C17_Witness ==
  /\ Carousel
  /\ Len(dom.slides) = 2
  /\ lastEv = "touchend"
  /\ dom.touchStartX = 50
  /\ dom.touchEndX = 0
  /\ dom.activeSlide = "1"

\* The carousel alone on its page: loads, user events and the ticks of the
\* interval, which fires every 5 s as long as the page lives.
AutoplayInit == PageInit /\ kind = "carousel"

AutoplayNext ==
  \/ LoadBlock
  \/ PrevClick
  \/ NextClick
  \/ IndicatorClick
  \/ KeyDown
  \/ TouchStart
  \/ TouchEnd
  \/ AutoplayTick

SpecAutoplay == AutoplayInit /\ [][AutoplayNext]_vars /\ WF_vars(AutoplayTick)

\* A carousel with the class autoplay and more than i slides.
AutoplayCarousel(i) ==
  Carousel /\ "autoplay" \in block.classes /\ Len(block.rows) > i

\* The events a user causes.
UserEvents == {"prev", "next", "indicator", "key", "touchstart", "touchend"}

\* C16: with the class autoplay the interval keeps firing whatever the user
\* does, and once only ticks happen every slide is active again and again;
\* without the class the active slide changes only with a user event (or
\* with a new load of the page, which starts at slide 0).
C16_Autoplay ==
  /\ AutoplayCarousel(0) => []<>(lastEv = "timer")
  /\ \A i \in 0..(MaxSlides - 1) :
       (AutoplayCarousel(i) /\ <>[](lastEv = "timer"))
         => []<>(dom.activeSlide = ToString(i))
  /\ [][(Carousel /\ "autoplay" \notin block.classes
           /\ dom'.activeSlide # dom.activeSlide)
          => lastEv' \in UserEvents \cup {"load"}]_vars

C16_Witness ==
  /\ AutoplayCarousel(2)
  /\ lastEv = "timer"
  /\ dom.activeSlide = "1"
  /\ dom.touchStartX = 50
  /\ dom.touchEndX = 101

\* The download block has no asset: row 0 is missing or holds no link.
NoAsset ==
  kind = "download" /\ (~HasRow(block.rows, 0) \/ ~RowAt(block.rows, 0).link)

\* C18: a download block whose row 0 is missing or holds no link holds,
\* after decorate, the error paragraph 'No download asset specified' and
\* nothing else (no container, no metadata, no download button), and no
\* file-size request was started, whatever the other rows hold.
C18_NoAssetErrorOnly ==
  NoAsset =>
    /\ dom.error
    /\ ~dom.container /\ ~dom.metadata
    /\ ~dom.title /\ ~dom.description
    /\ ~dom.filenameTag /\ ~dom.formatTag /\ ~dom.sizeTag
    /\ dom.buttonText = "" /\ dom.href = <<>> /\ dom.download = <<>>
    /\ dom.id = ""
    /\ pending = {}

C18_Witness ==
  /\ NoAsset
  /\ Len(block.rows) = DownloadFields
  /\ RowAt(block.rows, 1).text = "Report"
  /\ RowAt(block.rows, 5).text = "Get it"
  /\ FlagText(block.rows, 8) # "false"
  /\ lastEv = "load"
  /\ dom.error

====
